---------------------------- MODULE Spec2Model ----------------------------
(***************************************************************************)
(* Rune etching client: the Runestone codec (LEB128 varints, rune names,   *)
(* spacers, tagged payload, envelope), the App commit/fund/reveal flow,    *)
(* and the two transaction builders (createRunestoneReveal and             *)
(* createRunestoneEtching).                                                *)
(*                                                                         *)
(* Conventions.  A JavaScript string is the sequence of its UTF-16 code    *)
(* units; a Buffer / Uint8Array / number[] of bytes is a sequence of       *)
(* 0..255.  An optional property  x?: T  is a sequence of length at most   *)
(* one: << >> is undefined, <<v>> is the value v.  A call that may throw   *)
(* returns a record whose ok field tells whether it returned.              *)
(***************************************************************************)
EXTENDS Integers, Sequences, FiniteSets, TLC

VARIABLES
    fn, arg, ret,          \* the codec function last called, its argument, its result
    commitAddr, commitKey, commitUtxo, status, error, txResult, formData,
                           \* the App component's React state
    pending,               \* the handleSubmit invocations suspended on an await
    polled,                \* what the data provider answered to the funding poll that
                           \* resumed in the step just taken
    nextKey,               \* how many commit key pairs were generated so far
    microtasks,            \* the handleSubmit invocations whose awaited promise has
                           \* settled already, in the order in which they resume
    events,                \* how many events were dispatched in the running task
    resuming,              \* the handlers suspended in the running task have begun
                           \* to resume: no more events are dispatched in this task
    rendered,              \* the component state of the last render: the one the
                           \* rendered controls show and the closures of the handlers
                           \* made by that render read
    calls,                 \* the createRunestoneReveal calls of App that have settled, in
                           \* that order: the commit, the end, what was signed and broadcast
    rv                     \* one call of a transaction builder, step by step

vars == << fn, arg, ret, commitAddr, commitKey, commitUtxo, status, error,
           txResult, formData, pending, polled, nextKey, microtasks, events,
           resuming, rendered, calls, rv >>

codecVars == << fn, arg, ret >>
appVars   == << commitAddr, commitKey, commitUtxo, status, error, txResult,
                formData, pending, polled, nextKey, microtasks, events, resuming,
                rendered, calls >>

(***************************************************************************)
(* Bounds of the model.                                                    *)
(***************************************************************************)
MaxVarint == 300      \* varints 0..MaxVarint are all round-tripped, plus Boundaries
MaxUtxos  == 3        \* longest list the data provider returns
MaxBytes  == 3        \* longest byte sequence handed to decodeLeb128 on its own
MaxName   == 4        \* longest name, of any code units, handed to encodeRuneName
MaxCalls  == 2        \* createRunestoneReveal calls App starts in one behaviour
MaxCommits == 2       \* commit key pairs generated in one behaviour
MaxSubmits == 2       \* handleSubmit invocations suspended on the same await at once
MaxEvents == 2        \* events a script dispatches in one task

(***************************************************************************)
(* The names of the record fields used below.  TLC keeps the fields of a   *)
(* record in the order in which the names first occur in the module, and   *)
(* every record below is written in that order (alphabetical), so that a   *)
(* record never needs reordering once it is built.                         *)
(***************************************************************************)
FieldNames ==
    [ address |-> 0, amount |-> 0, broadcasts |-> 0, bytes |-> 0, call |-> 0, cap |-> 0,
      changeAmount |-> 0, commit |-> 0, commitAddr |-> 0, commitKey |-> 0,
      commitUtxo |-> 0, confirmed |-> 0, consumed |-> 0, data |-> 0,
      devFee |-> 0, divisibility |-> 0, error |-> 0, estimatedSize |-> 0, fee |-> 0,
      feeRate |-> 0, fields |-> 0, formData |-> 0, heightEnd |-> 0, heightStart |-> 0, inputs |-> 0,
      internalKey |-> 0, key |-> 0, keyPair |-> 0, minerFee |-> 0, mint |-> 0, mintAmount |-> 0,
      mintCap |-> 0, mintable |-> 0, offsetEnd |-> 0, offsetStart |-> 0, ok |-> 0,
      outputs |-> 0, params |-> 0, pc |-> 0, phase |-> 0, pointer |-> 0, premine |-> 0,
      recipient |-> 0, result |-> 0, runeName |-> 0, runeOptions |-> 0, sendValue |-> 0,
      signed |-> 0, spacers |-> 0, started |-> 0, status |-> 0, symbol |-> 0, tag |-> 0, terms |-> 0,
      totalFee |-> 0, totalInput |-> 0, turbo |-> 0, txId |-> 0, txResult |-> 0, txid |-> 0, utxo |-> 0, utxos |-> 0,
      value |-> 0, vout |-> 0 ]

None == << >>
Some(v) == << v >>
IsSome(m) == Len(m) > 0
Get(m) == m[1]

Pow(b, e) == IF e = 0 THEN 1 ELSE LET RECURSIVE P(_)
                                      P(k) == IF k = 0 THEN 1 ELSE b * P(k - 1)
                                  IN  P(e)

Reverse(s) == [i \in 1..Len(s) |-> s[Len(s) + 1 - i]]

RECURSIVE Concat(_)
Concat(ss) == IF Len(ss) = 0 THEN << >> ELSE Head(ss) \o Concat(Tail(ss))

(***************************************************************************)
(* LEB128.  value & 0x7f is value % 128 and value >>= 7 is floor division  *)
(* by 128, for negative bigints too (two's complement).                    *)
(***************************************************************************)
RECURSIVE encodeLeb128_NoContinuation(_)
encodeLeb128_NoContinuation(value) ==
    LET byte == value % 128
        rest == value \div 128
    IN  IF \/ (rest = 0 /\ (byte \div 64) % 2 = 0)
           \/ (rest = -1 /\ (byte \div 64) % 2 # 0)
        THEN << byte >>
        ELSE << byte >> \o encodeLeb128_NoContinuation(rest)

RECURSIVE encodeLeb128(_)
encodeLeb128(value) ==
    LET byte == value % 128
        rest == value \div 128
    IN  IF \/ (rest = 0 /\ (byte \div 64) % 2 = 0)
           \/ (rest = -1 /\ (byte \div 64) % 2 # 0)
        THEN << byte >>
        ELSE << byte + 128 >> \o encodeLeb128(rest)

\* The index i at which decodeLeb128's loop stops: the first byte with 0x80
\* clear, or bytes.length when there is none (the loop runs out).
RECURSIVE decodeStop(_, _)
decodeStop(bytes, i) ==
    IF i > Len(bytes) THEN Len(bytes)
    ELSE IF bytes[i] \div 128 = 0 THEN i
    ELSE decodeStop(bytes, i + 1)

\* How many bytes decodeLeb128 reads.
decodeLeb128Len(bytes) == decodeStop(bytes, 1)

\* result |= (bytes[i] & 0x7F) << shift: the groups do not overlap, so the
\* bitwise or is a sum.
RECURSIVE decodeSum(_, _, _)
decodeSum(bytes, i, last) ==
    IF i > last THEN 0
    ELSE (bytes[i] % 128) * Pow(128, i - 1) + decodeSum(bytes, i + 1, last)

decodeLeb128_Shift8(bytes) ==
    LET RECURSIVE S(_)
        S(i) == IF i > decodeLeb128Len(bytes) THEN 0
                ELSE (bytes[i] % 128) * Pow(256, i - 1) + S(i + 1)
    IN  S(1)

decodeLeb128(bytes) == decodeSum(bytes, 1, decodeLeb128Len(bytes))


(***************************************************************************)
(* Rune names.  Code units: 'A' = 65 .. 'Z' = 90, 'a' = 97 .. 'z' = 122,   *)
(* the spacer glyph U+2022 = 8226.                                         *)
(***************************************************************************)
Bullet == 8226

\* String.prototype.toUpperCase on one code unit, for the code units the
\* inputs below are made of: a-z and the Latin-1 letters move down by 32,
\* U+00DF becomes "SS", U+0131 becomes "I", U+017F becomes "S", and digits,
\* spaces, punctuation, upper-case letters and the spacer stay as they are.
upperUnit(c) ==
    IF c >= 97 /\ c <= 122 THEN << c - 32 >>
    ELSE IF c = 223 THEN << 83, 83 >>
    ELSE IF c >= 224 /\ c <= 254 /\ c # 247 THEN << c - 32 >>
    ELSE IF c = 305 THEN << 73 >>
    ELSE IF c = 383 THEN << 83 >>
    ELSE << c >>

toUpperCase(s) == Concat([i \in 1..Len(s) |-> upperUnit(s[i])])

cleanName_KeepSpacers(name) == toUpperCase(name)

\* name.replace(/•/g, '').toUpperCase()
cleanName(name) == toUpperCase(SelectSeq(name, LAMBDA c : c # Bullet))

RECURSIVE encodeRuneNameFrom(_, _, _)
encodeRuneNameFrom(clean, i, value) ==
    IF i > Len(clean) THEN [ok |-> TRUE, value |-> value]
    ELSE LET charCode == clean[i] - 65
         IN  IF charCode < 0 \/ charCode > 25
             THEN [ok |-> FALSE, value |-> 0]    \* throw new Error('Invalid character in rune name')
             ELSE encodeRuneNameFrom(clean, i + 1, value * 26 + charCode)

\* A variant that looks at the first character only.
encodeRuneName_CheckFirst(name) ==
    LET clean == cleanName(name)
    IN  IF Len(clean) = 0 THEN [ok |-> TRUE, value |-> 0]
        ELSE IF clean[1] < 65 \/ clean[1] > 90 THEN [ok |-> FALSE, value |-> 0]
        ELSE [ok |-> TRUE, value |-> clean[1] - 65]

encodeRuneName(name) == encodeRuneNameFrom(cleanName(name), 1, 0)

\* for (i = 0; i < name.length - 1; i++) if (name[i] === bullet) spacers |= (1 << i)
\* The shift count of << is taken modulo 32 and the operands of |= are signed
\* 32-bit integers, so the result is a set of bits 0..31 of which bit 31 is the
\* sign.
spacerBits(name) ==
    { i % 32 : i \in { j \in 0..(Len(name) - 2) : name[j + 1] = Bullet } }

RECURSIVE lowBits(_, _)
lowBits(bits, k) ==
    IF k > 30 THEN 0
    ELSE (IF k \in bits THEN Pow(2, k) ELSE 0) + lowBits(bits, k + 1)

calculateSpacers(name) ==
    LET bits == spacerBits(name)
    IN  lowBits(bits, 0) + (IF 31 \in bits THEN (-2147483647) - 1 ELSE 0)

(***************************************************************************)
(* Tags and flags.                                                         *)
(***************************************************************************)
TagBody         == 0
TagDivisibility == 1
TagSpacers      == 2
TagSymbol       == 3
TagRune         == 4
TagPremine      == 5
TagCap          == 6
TagAmount       == 7
TagHeightStart  == 8
TagHeightEnd    == 9
TagOffsetStart  == 10
TagOffsetEnd    == 11
TagMint         == 12
TagPointer      == 13
TagCenotaph     == 127

FlagEtching  == 1
FlagTerms    == 2
FlagTurbo    == 4
FlagCenotaph == 128

Field(tag, value) == [tag |-> tag, value |-> value]

\* One optional numeric property: a field when it is not undefined.
Opt(tag, m) == IF IsSome(m) THEN << Field(tag, Get(m)) >> ELSE << >>

\* Big-endian integer of a byte sequence: BigInt('0x' + hex).
RECURSIVE bytesToInt(_)
bytesToInt(bytes) ==
    IF Len(bytes) = 0 THEN 0
    ELSE bytesToInt(SubSeq(bytes, 1, Len(bytes) - 1)) * 256 + bytes[Len(bytes)]

\* Number of hex digits of vout.toString(16).padStart(2, '0').
hexDigits(n) == IF n < 256 THEN 2 ELSE IF n < 4096 THEN 3 ELSE 4

\* BigInt(`0x${reversed txid}${vout in hex, at least two digits}`)
mintIdentifier(mint) ==
    bytesToInt(Reverse(mint.txid)) * Pow(16, hexDigits(mint.vout)) + mint.vout

\* A variant that sets the Terms flag only.
flagsOf_TermsOnly(options) ==
    FlagEtching + (IF IsSome(options.terms) THEN FlagTerms ELSE 0)

flagsOf(options) ==
    FlagEtching
      + (IF IsSome(options.turbo) /\ Get(options.turbo) THEN FlagTurbo ELSE 0)
      + (IF IsSome(options.terms) THEN FlagTerms ELSE 0)

termsFields_CapFirst(terms) ==
       Opt(TagCap, terms.cap)
    \o Opt(TagAmount, terms.amount)
    \o Opt(TagHeightStart, terms.heightStart)
    \o Opt(TagHeightEnd, terms.heightEnd)
    \o Opt(TagOffsetStart, terms.offsetStart)
    \o Opt(TagOffsetEnd, terms.offsetEnd)

termsFields(terms) ==
       Opt(TagAmount, terms.amount)
    \o Opt(TagCap, terms.cap)
    \o Opt(TagHeightStart, terms.heightStart)
    \o Opt(TagHeightEnd, terms.heightEnd)
    \o Opt(TagOffsetStart, terms.offsetStart)
    \o Opt(TagOffsetEnd, terms.offsetEnd)

\* if (options.symbol) / if (options.runeName): the empty string is falsy.
Truthy(m) == IsSome(m) /\ Len(Get(m)) > 0

\* The local `fields` of createRunestonePayload when no call in it throws.
runestoneFields(options) ==
       << Field(TagBody, flagsOf(options)) >>
    \o Opt(TagDivisibility, options.divisibility)
    \o Opt(TagSpacers, options.spacers)
    \o (IF Truthy(options.symbol)
        THEN << Field(TagSymbol, Get(options.symbol)[1]) >> ELSE << >>)
    \o (IF Truthy(options.runeName)
        THEN << Field(TagRune, encodeRuneName(Get(options.runeName)).value) >> ELSE << >>)
    \o Opt(TagPremine, options.premine)
    \o (IF IsSome(options.terms) THEN termsFields(Get(options.terms)) ELSE << >>)
    \o (IF IsSome(options.mint)
        THEN << Field(TagMint, mintIdentifier(Get(options.mint))) >> ELSE << >>)
    \o Opt(TagPointer, options.pointer)

encodeField(field) == encodeLeb128(field.tag) \o encodeLeb128(field.value)

encodeFields(fields) == Concat([i \in 1..Len(fields) |-> encodeField(fields[i])])

createRunestonePayload(options) ==
    IF Truthy(options.runeName) /\ ~encodeRuneName(Get(options.runeName)).ok
    THEN [bytes |-> << >>, ok |-> FALSE]
    ELSE [bytes |-> encodeFields(runestoneFields(options)), ok |-> TRUE]

createRunestoneEnvelope(payload) ==
    << << 0 >>, << 99 >>, << 111, 114, 100 >>, << 1 >>, payload, << 0 >>, << 104 >> >>

(***************************************************************************)
(* Reading a payload back (the repository has no parser): sequential       *)
(* (varint tag, varint value) pairs, each read by decodeLeb128 from the    *)
(* current offset, until the buffer is exhausted.                          *)
(***************************************************************************)
Rest(bytes, n) == SubSeq(bytes, n + 1, Len(bytes))

RECURSIVE parsePayload(_)
parsePayload(bytes) ==
    IF Len(bytes) = 0 THEN << >>
    ELSE LET tagLen   == decodeLeb128Len(bytes)
             afterTag == Rest(bytes, tagLen)
             valLen   == decodeLeb128Len(afterTag)
         IN  << Field(decodeLeb128(bytes), decodeLeb128(afterTag)) >>
                \o parsePayload(Rest(afterTag, valLen))


(***************************************************************************)
(* The App component (App.tsx): its form, its validation, and the funding  *)
(* poll's choice among the unspent outputs.                                *)
(***************************************************************************)
Repeat(c, n) == [i \in 1..n |-> c]

IsDigit(c)  == c >= 48 /\ c <= 57
IsLower(c)  == c >= 97 /\ c <= 122
IsUpper(c)  == c >= 65 /\ c <= 90
toLowerCase(s) == [i \in 1..Len(s) |-> IF IsUpper(s[i]) THEN s[i] + 32 ELSE s[i]]

HasPrefix(s, pre) == Len(s) >= Len(pre) /\ SubSeq(s, 1, Len(pre)) = pre

\* /^(tb1|bcrt1)[a-z0-9]{25,90}$/i
addressRegex(address) ==
    LET a == toLowerCase(address)
        Body(pre) == /\ HasPrefix(a, pre)
                     /\ Len(a) - Len(pre) >= 25 /\ Len(a) - Len(pre) <= 90
                     /\ \A i \in (Len(pre) + 1)..Len(a) : IsLower(a[i]) \/ IsDigit(a[i])
    IN  Body(<< 116, 98, 49 >>) \/ Body(<< 98, 99, 114, 116, 49 >>)

\* /^[A-Z•]+$/
runeNameRegex(runeName) ==
    Len(runeName) > 0 /\ \A i \in 1..Len(runeName) : IsUpper(runeName[i]) \/ runeName[i] = Bullet

\* /^\d+$/
digitsRegex(str) == Len(str) > 0 /\ \A i \in 1..Len(str) : IsDigit(str[i])

validateForm(form) ==
    IF Len(form.address) = 0 THEN Some("Please enter a Bitcoin address")
    ELSE IF ~addressRegex(form.address) THEN Some("Please enter a valid bech32 address")
    ELSE IF Len(form.runeName) = 0 THEN Some("Rune name is required")
    ELSE IF ~runeNameRegex(form.runeName) THEN Some("Rune name can only contain A-Z and the spacer")
    ELSE IF Len(form.runeName) > 28 THEN Some("Rune name too long (max 28 chars)")
    ELSE IF ~digitsRegex(form.premine) THEN Some("Premine must be a whole number")
    ELSE IF form.mintable /\ (Len(form.mintAmount) = 0 \/ ~digitsRegex(form.mintAmount))
         THEN Some("Mint amount must be a whole number")
    ELSE IF form.mintable /\ (Len(form.mintCap) = 0 \/ ~digitsRegex(form.mintCap))
         THEN Some("Mint cap must be a whole number")
    ELSE None

\* "1000" and "¤"
Str1000 == << 49, 48, 48, 48 >>
StrCurrency == << 164 >>

\* useState<RuneFormData>({...})
InitialForm ==
    [ address |-> << >>, divisibility |-> 0, mintAmount |-> Str1000, mintCap |-> Str1000,
      mintable |-> FALSE, premine |-> Str1000, runeName |-> << >>, symbol |-> StrCurrency ]

\* The first render: the initial values of the useState calls
InitialRender ==
    [ commitAddr |-> None, commitKey |-> None, commitUtxo |-> None, error |-> "",
      formData |-> InitialForm, status |-> "idle", txResult |-> None ]

\* The larger of two outputs as the reduce callback picks it.
largerOf_FirstOnTie(prev, current) == IF prev.value >= current.value THEN prev ELSE current

largerOf_Smaller(prev, current) == IF prev.value < current.value THEN prev ELSE current

largerOf(prev, current) == IF prev.value > current.value THEN prev ELSE current

\* utxos.reduce(callback) on a non-empty array: the first element is the
\* initial accumulator.
RECURSIVE reduceFrom(_, _, _)
reduceFrom(utxos, i, acc) ==
    IF i > Len(utxos) THEN acc ELSE reduceFrom(utxos, i + 1, largerOf(acc, utxos[i]))

largestUtxo(utxos) == reduceFrom(utxos, 2, utxos[1])

(***************************************************************************)
(* What the data provider may answer: lists of at most MaxUtxos outputs    *)
(* with distinct outpoints.                                                *)
(***************************************************************************)
DistinctOutpoints(l) ==
    \A i, j \in 1..Len(l) : i # j => (l[i].txid # l[j].txid \/ l[i].vout # l[j].vout)

ListsOf(utxos) ==
    UNION { { l \in [1..n -> utxos] : DistinctOutpoints(l) } : n \in 0..MaxUtxos }

(***************************************************************************)
(* createRunestoneReveal (utils/real-bitcoin).  A call is the record       *)
(*   pc          where the call is: "idle", suspended on "listUnspent" or  *)
(*               on "broadcast", "returned" or "thrown"                    *)
(*   params      its argument                                              *)
(*   utxos, utxo, estimatedSize, fee, sendValue   its locals, once set     *)
(*   inputs, outputs   the PSBT under construction                         *)
(*   signed      the transactions handed to signInput, in order            *)
(*   broadcasts  the transactions posted to the broadcaster, in order      *)
(*   result      the RevealResult returned, error the message thrown       *)
(***************************************************************************)
DUST_LIMIT == 546

IdleCall ==
    [ broadcasts |-> << >>, error |-> "", estimatedSize |-> None, fee |-> None,
      inputs |-> << >>, outputs |-> << >>, params |-> None, pc |-> "idle",
      result |-> None, sendValue |-> None, signed |-> << >>, utxo |-> None,
      utxos |-> None ]

\* Decimal digits of a non-negative integer: n.toString()
RECURSIVE toDecimal(_)
toDecimal(n) == IF n < 10 THEN << 48 + n >> ELSE toDecimal(n \div 10) \o << 48 + (n % 10) >>

\* BigInt(str) of a string of decimal digits
RECURSIVE parseDecimal(_)
parseDecimal(str) ==
    IF Len(str) = 0 THEN 0
    ELSE parseDecimal(SubSeq(str, 1, Len(str) - 1)) * 10 + (str[Len(str)] - 48)

\* Buffer.from(str, 'utf8') for code units of the basic plane
utf8Unit(c) ==
    IF c < 128 THEN << c >>
    ELSE IF c < 2048 THEN << 192 + (c \div 64), 128 + (c % 64) >>
    ELSE << 224 + (c \div 4096), 128 + ((c \div 64) % 64), 128 + (c % 64) >>

utf8(str) == Concat([i \in 1..Len(str) |-> utf8Unit(str[i])])

\* The data pushed after OP_RETURN: marker, 'RSN', then the options as text.
runeData(runeOptions) ==
       << 1 >>
    \o << 82, 83, 78 >>
    \o utf8(runeOptions.runeName)
    \o utf8(runeOptions.symbol)
    \o utf8(toDecimal(runeOptions.divisibility))
    \o utf8(toDecimal(runeOptions.premine))
    \o (IF IsSome(runeOptions.terms)
        THEN    utf8(toDecimal(Get(runeOptions.terms).amount))
             \o utf8(toDecimal(Get(runeOptions.terms).cap))
             \o utf8(toDecimal(Get(runeOptions.terms).heightStart))
        ELSE << >>)

\* A variant that does not look at the confirmation status.
findCommitUtxo_AnyStatus(utxos, commit) ==
    LET hits == SelectSeq(utxos, LAMBDA u : u.txid = commit.txid /\ u.vout = commit.vout)
    IN  IF Len(hits) = 0 THEN None ELSE Some(hits[1])

\* utxos.find(u => u.txid === commit.txid && u.vout === commit.vout && u.status?.confirmed)
findCommitUtxo(utxos, commit) ==
    LET hits == SelectSeq(utxos, LAMBDA u : u.txid = commit.txid /\ u.vout = commit.vout
                                            /\ u.confirmed)
    IN  IF Len(hits) = 0 THEN None ELSE Some(hits[1])

\* Math.ceil(feeRate * estimatedSize * 1.2), for integers: ceil(6x / 5)
revealFee_NoBuffer(feeRate, estimatedSize) == feeRate * estimatedSize

revealFee(feeRate, estimatedSize) == (feeRate * estimatedSize * 6 + 4) \div 5

\* if (sendValue <= 546) throw
isDust_Below(sendValue) == sendValue < DUST_LIMIT

isDust(sendValue) == sendValue <= DUST_LIMIT

\* { txId, totalFee: fee, minerFee: floor(fee * 0.9), devFee: floor(fee * 0.1) }
revealResult(txId, fee) ==
    [ devFee |-> fee \div 10, minerFee |-> (fee * 9) \div 10, totalFee |-> fee, txId |-> txId ]

Output(address, data, value) == [address |-> address, data |-> data, value |-> value]

\* The PSBT after steps 2 and 3: the commit output as the only input, and the
\* zero-value OP_RETURN output.
revealInputs(utxo) == << [txid |-> utxo.txid, value |-> utxo.value, vout |-> utxo.vout] >>

revealDataOutput(params) == Output("OP_RETURN", runeData(params.runeOptions), 0)

Thrown(call, message) ==
    [call EXCEPT !.pc = "thrown", !.error = "Reveal transaction failed: " \o message]

(***************************************************************************)
(* The codec functions called on inputs drawn from bounded sets: one call  *)
(* per behaviour, from the state in which nothing was called yet.          *)
(***************************************************************************)
Boundaries == { 8191, 8192, 16383, 16384, 1048575, 1048576, 2097151, 2097152,
                268435455 }

VarintInputs == (0..MaxVarint) \cup Boundaries

\* "MY•RUNE", "AZ", "A1" (invalid), "•" and the empty string.
NameMyRune == << 77, 89, Bullet, 82, 85, 78, 69 >>
Names == { << >>, << 65, 90 >>, NameMyRune, << 65, 49 >>, << Bullet >> }

OptOf(S) == { None } \cup { Some(v) : v \in S }

NoTerms == [amount |-> None, cap |-> None, heightEnd |-> None,
            heightStart |-> None, offsetEnd |-> None, offsetStart |-> None]

\* Three value profiles: zero, two-byte varints, three-byte varints.
FullTerms(p) == [amount      |-> Some((p - 1) * 5000 + 1),
                 cap         |-> Some((p - 1) * 70),
                 heightEnd   |-> Some(64 * p),
                 heightStart |-> Some(840000 * (p - 1)),
                 offsetEnd   |-> Some(8191 + p),
                 offsetStart |-> Some(127 + p)]

Profiles == 1..3

\* Every subset of the terms properties, under every profile.
TermsChoices ==
    { [amount      |-> IF a THEN FullTerms(p).amount ELSE None,
       cap         |-> IF c THEN FullTerms(p).cap ELSE None,
       heightEnd   |-> IF he THEN FullTerms(p).heightEnd ELSE None,
       heightStart |-> IF hs THEN FullTerms(p).heightStart ELSE None,
       offsetEnd   |-> IF oe THEN FullTerms(p).offsetEnd ELSE None,
       offsetStart |-> IF os THEN FullTerms(p).offsetStart ELSE None] :
        a \in BOOLEAN, c \in BOOLEAN, he \in BOOLEAN, hs \in BOOLEAN,
        oe \in BOOLEAN, os \in BOOLEAN, p \in Profiles }

Mints == { [txid |-> << 171, 205 >>, vout |-> 1], [txid |-> << 0, 1 >>, vout |-> 300] }

EtchingChoices ==
    [ divisibility : OptOf({0, 18}),
      premine      : OptOf({0, 1000}),
      runeName     : OptOf(Names \ { << Bullet >> }),
      spacers      : OptOf({0, 4}),
      symbol       : OptOf({ << >>, << 164 >> }),
      turbo        : OptOf(BOOLEAN) ]

WithRest(e, terms, mint, pointer) ==
    [ divisibility |-> e.divisibility, mint |-> mint, pointer |-> pointer,
      premine |-> e.premine, runeName |-> e.runeName, spacers |-> e.spacers,
      symbol |-> e.symbol, terms |-> terms, turbo |-> e.turbo ]

TypicalEtching == [ divisibility |-> Some(2), premine |-> Some(1000000),
                    runeName |-> Some(NameMyRune), spacers |-> Some(4),
                    symbol |-> Some(<< 164 >>), turbo |-> Some(TRUE) ]

BareEtching == [ divisibility |-> None, premine |-> None, runeName |-> None,
                 spacers |-> None, symbol |-> None, turbo |-> None ]

InitCodec ==
    /\ fn = "none" /\ arg = None /\ ret = None
    /\ commitAddr = None /\ commitKey = None /\ commitUtxo = None
    /\ status = "idle" /\ error = "" /\ txResult = None
    /\ formData = InitialForm /\ pending = << >> /\ polled = None /\ nextKey = 0
    /\ microtasks = << >> /\ events = 0 /\ resuming = FALSE
    /\ rendered = InitialRender
    /\ calls = << >>
    /\ rv = IdleCall

\* decodeLeb128(encodeLeb128(v))
CallLeb128(v) ==
    /\ fn = "none"
    /\ fn' = "leb128"
    /\ arg' = v
    /\ LET bytes == encodeLeb128(v)
       IN  ret' = [bytes |-> bytes, consumed |-> decodeLeb128Len(bytes),
                   value |-> decodeLeb128(bytes)]
    /\ UNCHANGED << appVars, rv >>

CallPayload(options) ==
    /\ fn = "none"
    /\ fn' = "createRunestonePayload"
    /\ arg' = options
    /\ LET r == createRunestonePayload(options)
       IN  ret' = [bytes |-> r.bytes,
                   fields |-> IF r.ok THEN runestoneFields(options) ELSE << >>,
                   ok |-> r.ok]
    /\ UNCHANGED << appVars, rv >>

\* Every combination of the etching properties, alone or followed by all the
\* terms, a mint reference and a pointer.
PayloadOfEtching ==
    \E e \in EtchingChoices, full \in BOOLEAN :
        CallPayload(IF full
                    THEN WithRest(e, Some(FullTerms(2)),
                                  Some([txid |-> << 171, 205 >>, vout |-> 1]), Some(0))
                    ELSE WithRest(e, None, None, None))

\* Every combination of the terms properties, around a bare or a typical etching.
PayloadOfTerms ==
    \E e \in { BareEtching, TypicalEtching }, t \in TermsChoices,
       m \in OptOf(Mints), q \in OptOf({200}) :
        CallPayload(WithRest(e, Some(t), m, q))

RoundTripLeb128 == \E v \in VarintInputs : CallLeb128(v)

\* Bytes with and without the continuation bit, in sequences that end with a
\* terminating byte, that never terminate, or that are empty.
DecodeBytes == { 0, 1, 127, 128, 255 }
DecodeInputs == UNION { [1..n -> DecodeBytes] : n \in 0..MaxBytes }

\* decodeLeb128(bytes): the function has no throw statement, it returns on
\* every input
CallDecode(bytes) ==
    /\ fn = "none"
    /\ fn' = "decodeLeb128"
    /\ arg' = bytes
    /\ ret' = [consumed |-> decodeLeb128Len(bytes), ok |-> TRUE,
               value |-> decodeLeb128(bytes)]
    /\ UNCHANGED << appVars, rv >>

DecodeBytesAlone == \E bytes \in DecodeInputs : CallDecode(bytes)

\* Names of 'A', 'B', 'Z', 'z', '1' and the spacer in every arrangement, and
\* "MY•RUNE", "MYRUNE", "•MYRUNE•" and "M•Y•R•U•N•E".
NameUnits == { 65, 66, 90, 122, 49, Bullet }
NameInputs ==
    UNION { [1..n -> NameUnits] : n \in 0..MaxName }
      \cup { NameMyRune, << 77, 89, 82, 85, 78, 69 >>,
             << Bullet, 77, 89, 82, 85, 78, 69, Bullet >>,
             << 77, Bullet, 89, Bullet, 82, Bullet, 85, Bullet, 78, Bullet, 69 >> }

\* A space, '-', '@' and '[' (the neighbours of 'A' and 'Z'), '`' and '{' (the
\* neighbours of 'a' and 'z'), and the letters U+00DF, U+00E9, U+0131 and
\* U+017F, each put at every position of "", "AZ" and "MY•R".
OddUnits == { 32, 45, 64, 91, 96, 123, 223, 233, 305, 383 }
OddNames ==
    { SubSeq(base, 1, p) \o << c >> \o SubSeq(base, p + 1, Len(base)) :
        << base, p, c >> \in
            { t \in { << >>, << 65, 90 >>, << 77, 89, Bullet, 82 >> } \X (0..4) \X OddUnits :
                t[2] <= Len(t[1]) } }

\* "AA•A•A ... •A" of 34 characters, its separators at the indices 2, 4, ...,
\* 32, and "A•A• ... •A" of 33 characters, its separators at 1, 3, ..., 31.
LongNames ==
    { [i \in 1..34 |-> IF i > 2 /\ i % 2 = 1 THEN Bullet ELSE 65],
      [i \in 1..33 |-> IF i % 2 = 0 THEN Bullet ELSE 65] }

\* calculateSpacers(name)
CallSpacers(name) ==
    /\ fn = "none"
    /\ fn' = "calculateSpacers"
    /\ arg' = name
    /\ ret' = [ok |-> TRUE, value |-> calculateSpacers(name)]
    /\ UNCHANGED << appVars, rv >>

SpacersOfName ==
    \E name \in NameInputs \cup LongNames \cup { NameMyRune \o << Bullet >> } :
        CallSpacers(name)

\* createRunestoneEnvelope(payload)
CallEnvelope(payload) ==
    /\ fn = "none"
    /\ fn' = "createRunestoneEnvelope"
    /\ arg' = payload
    /\ ret' = [ok |-> TRUE, value |-> createRunestoneEnvelope(payload)]
    /\ UNCHANGED << appVars, rv >>

\* The empty payload, every short byte sequence, and a typical payload.
EnvelopeOfPayload ==
    \E payload \in DecodeInputs \cup { createRunestonePayload(WithRest(TypicalEtching, None, None, None)).bytes } :
        CallEnvelope(payload)

\* encodeRuneName(name)
CallRuneName(name) ==
    /\ fn = "none"
    /\ fn' = "encodeRuneName"
    /\ arg' = name
    /\ ret' = encodeRuneName(name)
    /\ UNCHANGED << appVars, rv >>

EncodeName == \E name \in NameInputs \cup OddNames : CallRuneName(name)

NextCodec ==
    \/ RoundTripLeb128 \/ PayloadOfEtching \/ PayloadOfTerms \/ DecodeBytesAlone
    \/ EncodeName \/ SpacersOfName \/ EnvelopeOfPayload

SpecCodec == InitCodec /\ [][NextCodec]_vars

(***************************************************************************)
(* C1: for every non-negative integer v, decodeLeb128(encodeLeb128(v)) is  *)
(* v, and the decoder reads exactly as many bytes as the encoding has.     *)
(***************************************************************************)
C1_RoundTrip ==
    fn = "leb128" => /\ ret.value = arg
                     /\ ret.consumed = Len(ret.bytes)

\* A value whose encoding takes several bytes has been round-tripped.
C1_Witness == fn = "leb128" /\ arg = 16384 /\ Len(ret.bytes) = 3 /\ ret.value = 16384

(***************************************************************************)
(* C2: the payload's fields are in the fixed wire order: flags first,      *)
(* then divisibility, spacers, symbol, rune, premine, then amount, cap,    *)
(* heightStart, heightEnd, offsetStart, offsetEnd, then mint, then         *)
(* pointer; no field appears twice.                                        *)
(***************************************************************************)
WireOrder == << TagBody, TagDivisibility, TagSpacers, TagSymbol, TagRune, TagPremine,
                TagAmount, TagCap, TagHeightStart, TagHeightEnd, TagOffsetStart,
                TagOffsetEnd, TagMint, TagPointer >>

WirePos(tag) == CHOOSE i \in 1..Len(WireOrder) : WireOrder[i] = tag

C2_WireOrder ==
    (fn = "createRunestonePayload" /\ ret.ok) =>
        /\ Len(ret.fields) >= 1
        /\ ret.fields[1].tag = TagBody
        /\ \A i \in 1..Len(ret.fields) : \E k \in 1..Len(WireOrder) : WireOrder[k] = ret.fields[i].tag
        /\ \A i, j \in 1..Len(ret.fields) :
              i < j => WirePos(ret.fields[i].tag) < WirePos(ret.fields[j].tag)

\* A payload with every one of the fourteen fields has been built.
C2_Witness ==
    fn = "createRunestonePayload" /\ ret.ok /\ Len(ret.fields) = Len(WireOrder)

(***************************************************************************)
(* C3: reading the payload bytes as sequential (varint tag, varint value)  *)
(* pairs until the buffer is exhausted gives back exactly the fields that  *)
(* were set, in the same order and with the same values.                   *)
(***************************************************************************)
C3_ParseRoundTrip ==
    (fn = "createRunestonePayload" /\ ret.ok) => parsePayload(ret.bytes) = ret.fields

\* A payload with several fields, one of them a multi-byte varint, was parsed.
C3_Witness ==
    /\ fn = "createRunestonePayload" /\ ret.ok
    /\ Len(ret.fields) >= 8
    /\ \E i \in 1..Len(ret.fields) : ret.fields[i].value >= 16384
    /\ Len(ret.bytes) > 2 * Len(ret.fields)


(***************************************************************************)
(* The App flow.  The event handlers (handleSubmit, handleInputChange and  *)
(* the two onClick functions) are made by a render and read the component  *)
(* state of that render; the set calls they make are in the state          *)
(* variables at once and are shown by the next render, which React makes   *)
(* when the running task has ended.  `rendered` is the state of the last   *)
(* render, `events` counts the events dispatched in the running task: a    *)
(* user's event is a task of its own, a script may dispatch up to          *)
(* MaxEvents in one task, and all of them meet the controls and the        *)
(* handlers of `rendered`.  handleSubmit runs to its first await in the    *)
(* event that started it.  In phase 1 nothing is awaited but a settled     *)
(* promise, so the handler is in `microtasks` and resumes at the end of    *)
(* the task; in phases 2 and 3 it awaits the network, is a record of       *)
(* `pending` and resumes in a task of its own.  A record of `pending` has  *)
(* the phase, the commit address and the status of the handler's render,   *)
(* the createRunestoneReveal call it awaits (IdleCall in phase 2), and how *)
(* many reveal handlers had finished when it started.  The commit key pair *)
(* is identified by its number, and so is the address derived from it.     *)
(* The data provider answers every poll with any list of outputs with      *)
(* distinct outpoints among those of TxIds and Vouts.                      *)
(***************************************************************************)
TxIds  == { 1 }
Vouts  == 0..1
Values == { 546, 1000 }

Utxos == [ confirmed : BOOLEAN, txid : TxIds, value : Values, vout : Vouts ]

UtxoLists == ListsOf(Utxos)

\* "tb1" followed by 25 times "q"; the names "MY•RUNE" and "A1".
GoodAddress == << 116, 98, 49 >> \o Repeat(113, 25)
FormValues ==
    [ address  |-> { GoodAddress },
      runeName |-> { NameMyRune, << 65, 49 >> } ]

InitApp ==
    /\ fn = "none" /\ arg = None /\ ret = None
    /\ commitAddr = None /\ commitKey = None /\ commitUtxo = None
    /\ status = "idle" /\ error = "" /\ txResult = None
    /\ formData = InitialForm /\ pending = << >> /\ polled = None /\ nextKey = 0
    /\ microtasks = << >> /\ events = 0 /\ resuming = FALSE
    /\ rendered = InitialRender
    /\ calls = << >>
    /\ rv = IdleCall

\* The component state as the next render will show it: every set call made
\* since the last render is in it.
Snapshot ==
    [ commitAddr |-> commitAddr, commitKey |-> commitKey, commitUtxo |-> commitUtxo,
      error |-> error, formData |-> formData, status |-> status, txResult |-> txResult ]

\* No task is running: no handler waits for the end of one, and React has
\* rendered the state.  React renders when a task has ended, so the events
\* that a script dispatches in one task all meet the controls and the
\* handlers of the render before the first of them.
BetweenTasks == microtasks = << >> /\ events = 0 /\ ~resuming /\ rendered = Snapshot

\* One more event is dispatched in the running task, or starts a task.
EventDispatched == ~resuming /\ events < MaxEvents /\ events' = events + 1

\* handleInputChange, from an input of the last render: the inputs are rendered
\* while there is no commit address, those of the mint terms while the form is
\* mintable.  setFormData is given a function of the previous state.
InputChangeTo(values) ==
    /\ EventDispatched
    /\ rendered.commitAddr = None
    /\ \E field \in DOMAIN values : \E v \in values[field] :
          /\ field \in { "mintAmount", "mintCap" } => rendered.formData.mintable
          /\ formData' = [formData EXCEPT ![field] = v]
    /\ polled' = None
    /\ UNCHANGED << codecVars, commitAddr, commitKey, commitUtxo, status, error,
                    txResult, pending, nextKey, calls, rv, microtasks,
                    resuming, rendered >>

\* The form does not submit while a rendered `required` input is empty: the
\* inputs hold what the last change events gave them.
RequiredFilled ==
    rendered.commitAddr = None =>
        Len(formData.address) > 0 /\ Len(formData.runeName) > 0 /\ Len(formData.premine) > 0

\* The submit button as rendered: disabled while fetching or revealing.
SubmitEnabled ==
    /\ rendered.status \notin { "fetchingUTXO", "creatingReveal" }
    /\ RequiredFilled

\* Where a submit event comes from: a click on the submit button, which needs
\* the button enabled, or form.requestSubmit(), which does not look at it.
SubmitSources == { "click", "requestSubmit" }

Dispatched(source) ==
    /\ EventDispatched
    /\ IF source = "click" THEN SubmitEnabled ELSE RequiredFilled

\* catch (err): the status read is the one of the render that made the handler
CatchOf(closureStatus, message) ==
    /\ error' = message
    /\ status' = "error"
    /\ commitUtxo' = IF closureStatus = "creatingReveal" THEN None ELSE commitUtxo

\* What makes ECPair.makeRandom throw
RandomErrors == { "no entropy" }

\* What bitcoin.payments.p2tr throws for an internal key it does not accept
PaymentErrors == { "Expected Buffer(Length: 32)" }

\* What generateRunestoneCommitAddress throws once ECPair.makeRandom has
\* returned a key pair: its own three errors and the one of payments.p2tr
KeyErrors ==
    { "Failed to generate keyPair", "Failed to derive public key",
      "Failed to derive P2TR address" } \cup PaymentErrors

\* Phase 1, validation fails: validateForm reads the form of the handler's render
InvalidBy(source) ==
    /\ Dispatched(source)
    /\ rendered.commitAddr = None
    /\ validateForm(rendered.formData) # None
    /\ error' = Get(validateForm(rendered.formData))
    /\ status' = "error"
    /\ txResult' = None
    /\ polled' = None
    /\ UNCHANGED << codecVars, commitAddr, commitKey, commitUtxo, formData,
                    pending, nextKey, microtasks, resuming, rendered, calls,
                    rv >>

\* Phase 1 up to its await: generateRunestoneCommitAddress has no await of its
\* own, so it has made the key pair when handleSubmit is suspended, and the
\* handler resumes at the end of the task.
CommitBy(source) ==
    /\ Dispatched(source)
    /\ rendered.commitAddr = None
    /\ validateForm(rendered.formData) = None
    /\ Len(microtasks) < MaxSubmits
    /\ nextKey < MaxCommits
    /\ error' = ""
    /\ txResult' = None
    /\ status' = "waitingForPay"
    /\ nextKey' = nextKey + 1
    /\ microtasks' = Append(microtasks, [error |-> "", key |-> Some(nextKey + 1),
                                         status |-> rendered.status])
    /\ polled' = None
    /\ UNCHANGED << codecVars, commitAddr, commitKey, commitUtxo, formData,
                    pending, resuming, rendered, calls, rv >>

\* Phase 1 up to its await, generateRunestoneCommitAddress throws: the promise
\* awaited is rejected, and the catch block runs when the handler resumes.
\* ECPair.makeRandom throws, or a later statement does and a key pair was made.
CommitThrowsBy(source) ==
    /\ Dispatched(source)
    /\ rendered.commitAddr = None
    /\ validateForm(rendered.formData) = None
    /\ Len(microtasks) < MaxSubmits
    /\ error' = ""
    /\ txResult' = None
    /\ status' = "waitingForPay"
    /\ \/ /\ \E message \in RandomErrors :
                microtasks' = Append(microtasks,
                    [error |-> "Commit address generation failed: " \o message,
                     key |-> None, status |-> rendered.status])
          /\ nextKey' = nextKey
       \/ /\ nextKey < MaxCommits
          /\ \E message \in KeyErrors :
                microtasks' = Append(microtasks,
                    [error |-> "Commit address generation failed: " \o message,
                     key |-> Some(nextKey + 1), status |-> rendered.status])
          /\ nextKey' = nextKey + 1
    /\ polled' = None
    /\ UNCHANGED << codecVars, commitAddr, commitKey, commitUtxo, formData,
                    pending, resuming, rendered, calls, rv >>

\* The end of a task in which phase 1 ran: the handlers suspended at the await
\* of generateRunestoneCommitAddress resume one after the other, in the order
\* in which they were suspended and before anything else happens.  The handler
\* calls setCommitAddr and setCommitKey, or runs its catch block.  React
\* renders when the last of them is done.
CommitResumes ==
    /\ microtasks # << >>
    /\ LET task == Head(microtasks)
       IN  IF task.error = ""
           THEN /\ commitAddr' = task.key
                /\ commitKey' = task.key
                /\ UNCHANGED << commitUtxo, error, status >>
           ELSE /\ CatchOf(task.status, task.error)
                /\ UNCHANGED << commitAddr, commitKey >>
    /\ microtasks' = Tail(microtasks)
    /\ resuming' = (Tail(microtasks) # << >>)
    /\ events' = IF Tail(microtasks) = << >> THEN 0 ELSE events
    /\ polled' = None
    /\ UNCHANGED << codecVars, txResult, formData, pending, nextKey, calls, rv >>
    /\ rendered' = IF Tail(microtasks) = << >> THEN Snapshot' ELSE rendered

\* The end of a task in which no handler waits: React renders the state.
Renders ==
    /\ microtasks = << >>
    /\ rendered # Snapshot \/ events > 0
    /\ rendered' = Snapshot
    /\ events' = 0
    /\ polled' = None
    /\ UNCHANGED << codecVars, commitAddr, commitKey, commitUtxo, status,
                    error, txResult, formData, pending, nextKey, microtasks,
                    resuming, calls, rv >>

\* The handlers suspended on the funding poll
PollsInFlight == { i \in 1..Len(pending) : pending[i].phase = "listUnspent" }

\* Phase 2, up to the await of listUnspent: the handler reads the commit
\* address and the outpoint of its render
PollBy(source) ==
    /\ Dispatched(source)
    /\ rendered.commitAddr # None /\ rendered.commitUtxo = None
    /\ Cardinality(PollsInFlight) < MaxSubmits
    /\ error' = ""
    /\ txResult' = None
    /\ status' = "fetchingUTXO"
    /\ pending' = Append(pending, [call |-> IdleCall,
                                   commitAddr |-> Get(rendered.commitAddr),
                                   phase |-> "listUnspent", started |-> Len(calls),
                                   status |-> rendered.status])
    /\ polled' = None
    /\ UNCHANGED << codecVars, commitAddr, commitKey, commitUtxo, formData,
                    nextKey, microtasks, resuming, calls, rv, rendered >>

\* The submit events of a click on the button
SubmitCommit == CommitBy("click")

SubmitInvalid == InvalidBy("click")

SubmitCommitThrows == CommitThrowsBy("click")

SubmitPoll == PollBy("click")

Without(seq, i) == SubSeq(seq, 1, i - 1) \o SubSeq(seq, i + 1, Len(seq))

\* Phase 2, listUnspent returns no output.  A handler resumes from a network
\* call in a task of its own, and React renders at the end of it.
PollEmpty ==
    \E i \in 1..Len(pending) :
        /\ BetweenTasks
        /\ pending[i].phase = "listUnspent"
        /\ polled' = Some(<< >>)
        /\ error' = "Waiting for ~546 sats"
        /\ status' = "error"
        /\ pending' = Without(pending, i)
        /\ UNCHANGED << codecVars, commitAddr, commitKey, commitUtxo, txResult,
                        formData, nextKey, calls, rv, microtasks, events,
                        resuming >>
        /\ rendered' = Snapshot'

\* Phase 2, listUnspent returns outputs
PollFundedFrom(lists) ==
    \E i \in 1..Len(pending) : \E utxos \in lists :
        /\ BetweenTasks
        /\ pending[i].phase = "listUnspent"
        /\ Len(utxos) > 0
        /\ polled' = Some(utxos)
        /\ commitUtxo' = Some([txid |-> largestUtxo(utxos).txid,
                               vout |-> largestUtxo(utxos).vout])
        /\ pending' = Without(pending, i)
        /\ UNCHANGED << codecVars, commitAddr, commitKey, status, error,
                        txResult, formData, nextKey, calls, rv, microtasks,
                        events, resuming >>
        /\ rendered' = Snapshot'

\* Phase 2, listUnspent throws
PollThrows ==
    \E i \in 1..Len(pending) :
        /\ BetweenTasks
        /\ pending[i].phase = "listUnspent"
        /\ CatchOf(pending[i].status, "UTXO fetch failed")
        /\ pending' = Without(pending, i)
        /\ polled' = None
        /\ UNCHANGED << codecVars, commitAddr, commitKey, txResult, formData,
                        nextKey, calls, rv, microtasks, events, resuming >>
        /\ rendered' = Snapshot'

\* The 'Try Again' button, rendered with the error while the status is 'error':
\* setStatus('idle')
TryAgain ==
    /\ EventDispatched
    /\ rendered.error # "" /\ rendered.status = "error"
    /\ status' = "idle"
    /\ polled' = None
    /\ UNCHANGED << codecVars, commitAddr, commitKey, commitUtxo, error, txResult,
                    formData, pending, nextKey, calls, rv, microtasks,
                    resuming, rendered >>

InputChange == InputChangeTo(FormValues)

PollFunded == PollFundedFrom(UtxoLists)



\* The position in the polled list of the outpoint the poll selected.
SameOutpoint(u, o) == u.txid = o.txid /\ u.vout = o.vout

SelectedIn(utxos, outpoint) ==
    CHOOSE i \in 1..Len(utxos) : SameOutpoint(utxos[i], outpoint)

SelectedIndex == SelectedIn(Get(polled), Get(commitUtxo))

\* In this step the funding poll stored a funding outpoint.
Selects == commitUtxo' # commitUtxo /\ commitUtxo' # None

\* In this step a listUnspent call of the funding poll settled.
PollSettles ==
    \E i \in 1..Len(pending) :
        pending[i].phase = "listUnspent" /\ pending' = Without(pending, i)

IsMaximum(l, i) == \A j \in 1..Len(l) : l[j].value <= l[i].value

(***************************************************************************)
(* C5: when several outputs share the maximum value, the funding poll      *)
(* selects the first-seen of them, the one with the lowest index in the    *)
(* list the provider returned in the step that stores the outpoint.        *)
(***************************************************************************)
C5_FirstSeenAmongMaxima ==
    [][Selects =>
        \A j \in 1..Len(Get(polled')) :
            IsMaximum(Get(polled'), j) => SelectedIn(Get(polled'), Get(commitUtxo')) <= j]_vars

(***************************************************************************)
(* C6: if the provider reports no confirmed unspent output at the commit   *)
(* address (none at all, or only unconfirmed ones), no funding outpoint is *)
(* selected: a poll that returns no confirmed output leaves commitUtxo     *)
(* null.                                                                   *)
(***************************************************************************)
C6_FundedOnlyWhenConfirmed ==
    [][(/\ PollSettles
        /\ commitUtxo = None
        /\ polled' # None
        /\ \A i \in 1..Len(Get(polled')) : ~Get(polled')[i].confirmed)
        => commitUtxo' = None]_vars


(***************************************************************************)
(* Calls of createRunestoneReveal.  The library calls whose code is not    *)
(* part of the repository (the size of the extracted transaction, signing, *)
(* signature validation) and the network calls either return or throw.     *)
(***************************************************************************)
FeeRates      == { 1, 15 }
Sizes         == { 150, 184 }
RevealValues  == { 546, 3858, 3859, 10000 }
RevealUtxos   == [ confirmed : BOOLEAN, txid : { 1 }, value : RevealValues, vout : 0..1 ]
RevealLists   == ListsOf(RevealUtxos)
Recipient     == "recipient"
BroadcastTxId == 77

\* The options App passes: "MY•RUNE", "¤", divisibility 0, premine 1000, no terms.
AppRuneOptions ==
    [ divisibility |-> 0, premine |-> 1000, runeName |-> NameMyRune,
      symbol |-> StrCurrency, terms |-> None ]

RevealParams ==
    { [ commit |-> [internalKey |-> 1, keyPair |-> kp, txid |-> 1, vout |-> 0],
        feeRate |-> r, recipient |-> Recipient, runeOptions |-> AppRuneOptions ] :
        kp \in OptOf({ 1 }), r \in FeeRates }

InitReveal ==
    /\ fn = "none" /\ arg = None /\ ret = None
    /\ commitAddr = None /\ commitKey = None /\ commitUtxo = None
    /\ status = "idle" /\ error = "" /\ txResult = None
    /\ formData = InitialForm /\ pending = << >> /\ polled = None /\ nextKey = 0
    /\ microtasks = << >> /\ events = 0 /\ resuming = FALSE
    /\ rendered = InitialRender
    /\ calls = << >>
    /\ rv = IdleCall

\* What the library throws while the transaction is built: psbt.addInput for the
\* commit output, script.compile or psbt.addOutput for the data output, and
\* psbt.addOutput for a recipient address it cannot turn into a script
InputErrors == { "Invalid hash" }

ScriptErrors == { "Expected Buffer" }

AddressErrors == { Recipient \o " has no matching Script" }

\* What psbt.signInput and psbt.finalizeAllInputs throw, and the error raised for
\* a signature that does not validate
SignErrors ==
    { "Need Signer to sign input", "Can not sign for input #0 with the key 02aa",
      "Can not finalize input #0", "Invalid transaction signature" }

\* bitcoin.payments.p2tr throws: the call fails before it asks for the outputs
RevealPaymentThrows ==
    /\ rv.pc = "idle"
    /\ \E params \in RevealParams, message \in PaymentErrors :
          rv' = Thrown([rv EXCEPT !.params = Some(params)], message)
    /\ UNCHANGED << codecVars, appVars >>

\* The call, up to the await of listUnspent
RevealCall ==
    /\ rv.pc = "idle"
    /\ \E params \in RevealParams :
          rv' = [rv EXCEPT !.params = Some(params), !.pc = "listUnspent"]
    /\ UNCHANGED << codecVars, appVars >>

\* listUnspent throws
RevealFetchThrows ==
    /\ rv.pc = "listUnspent"
    /\ rv' = Thrown(rv, "UTXO fetch failed")
    /\ UNCHANGED << codecVars, appVars >>

\* listUnspent returns a list without the commit outpoint, or with it unconfirmed
RevealNotFound ==
    /\ rv.pc = "listUnspent"
    /\ \E utxos \in RevealLists :
          /\ findCommitUtxo(utxos, Get(rv.params).commit) = None
          /\ rv' = Thrown([rv EXCEPT !.utxos = Some(utxos)],
                          "Commit UTXO not found or unconfirmed")
    /\ UNCHANGED << codecVars, appVars >>

\* The state of the call after steps 1 to 3, given the list and the size
Built(call, utxos) ==
    LET params == Get(call.params)
        utxo   == Get(findCommitUtxo(utxos, params.commit))
    IN  [call EXCEPT !.utxos = Some(utxos),
                     !.utxo = Some(utxo),
                     !.inputs = revealInputs(utxo),
                     !.outputs = << revealDataOutput(params) >>]

\* ... and after step 4's fee calculation
Priced(call, utxos, estimatedSize) ==
    LET b   == Built(call, utxos)
        fee == revealFee(Get(call.params).feeRate, estimatedSize)
    IN  [b EXCEPT !.estimatedSize = Some(estimatedSize),
                  !.fee = Some(fee),
                  !.sendValue = Some(Get(b.utxo).value - fee)]

\* ... and after the recipient output was added
Funded(call, utxos, estimatedSize) ==
    LET q == Priced(call, utxos, estimatedSize)
    IN  [q EXCEPT !.outputs = Append(q.outputs,
                                     Output(Get(call.params).recipient, << >>, Get(q.sendValue)))]

TxOf(call) == [inputs |-> call.inputs, outputs |-> call.outputs]

\* The state of the call after step 1, the commit output found
Found(call, utxos) ==
    [call EXCEPT !.utxos = Some(utxos),
                 !.utxo = findCommitUtxo(utxos, Get(call.params).commit)]

\* ... and after the input was added
WithInput(call, utxos) ==
    [Found(call, utxos) EXCEPT !.inputs = revealInputs(Get(Found(call, utxos).utxo))]

\* psbt.addInput throws: the commit output was found, nothing was added
RevealInputThrows ==
    /\ rv.pc = "listUnspent"
    /\ \E utxos \in RevealLists, message \in InputErrors :
          /\ findCommitUtxo(utxos, Get(rv.params).commit) # None
          /\ rv' = Thrown(Found(rv, utxos), message)
    /\ UNCHANGED << codecVars, appVars >>

\* script.compile or psbt.addOutput throws for the data output: the input was
\* added, no output was
RevealDataThrows ==
    /\ rv.pc = "listUnspent"
    /\ \E utxos \in RevealLists, message \in ScriptErrors :
          /\ findCommitUtxo(utxos, Get(rv.params).commit) # None
          /\ rv' = Thrown(WithInput(rv, utxos), message)
    /\ UNCHANGED << codecVars, appVars >>

\* psbt.addOutput throws for the recipient: the fee was taken and the remainder
\* is no dust, the recipient output was not added and nothing was signed
RevealRecipientThrows ==
    /\ rv.pc = "listUnspent"
    /\ \E utxos \in RevealLists, estimatedSize \in Sizes, message \in AddressErrors :
          /\ findCommitUtxo(utxos, Get(rv.params).commit) # None
          /\ ~isDust(Get(Priced(rv, utxos, estimatedSize).sendValue))
          /\ rv' = Thrown(Priced(rv, utxos, estimatedSize), message)
    /\ UNCHANGED << codecVars, appVars >>

\* psbt.extractTransaction() throws on the unsigned PSBT
RevealSizeThrows ==
    /\ rv.pc = "listUnspent"
    /\ \E utxos \in RevealLists :
          /\ findCommitUtxo(utxos, Get(rv.params).commit) # None
          /\ rv' = Thrown(Built(rv, utxos), "Not finalized")
    /\ UNCHANGED << codecVars, appVars >>

\* The remainder is dust
RevealInsufficient ==
    /\ rv.pc = "listUnspent"
    /\ \E utxos \in RevealLists, estimatedSize \in Sizes :
          /\ findCommitUtxo(utxos, Get(rv.params).commit) # None
          /\ isDust(Get(Priced(rv, utxos, estimatedSize).sendValue))
          /\ rv' = Thrown(Priced(rv, utxos, estimatedSize),
                          "Insufficient funds after fee calculation")
    /\ UNCHANGED << codecVars, appVars >>

\* signInput or finalizeAllInputs throws, or the signature does not validate:
\* the message is the one of the statement that threw
RevealSignThrows ==
    /\ rv.pc = "listUnspent"
    /\ \E utxos \in RevealLists, estimatedSize \in Sizes, message \in SignErrors :
          /\ findCommitUtxo(utxos, Get(rv.params).commit) # None
          /\ ~isDust(Get(Priced(rv, utxos, estimatedSize).sendValue))
          /\ LET f == Funded(rv, utxos, estimatedSize)
             IN  rv' = Thrown([f EXCEPT !.signed = Append(f.signed, TxOf(f))], message)
    /\ UNCHANGED << codecVars, appVars >>

\* Signed and validated; up to the await of the broadcast
RevealSigned ==
    /\ rv.pc = "listUnspent"
    /\ \E utxos \in RevealLists, estimatedSize \in Sizes :
          /\ findCommitUtxo(utxos, Get(rv.params).commit) # None
          /\ ~isDust(Get(Priced(rv, utxos, estimatedSize).sendValue))
          /\ LET f == Funded(rv, utxos, estimatedSize)
             IN  rv' = [f EXCEPT !.signed = Append(f.signed, TxOf(f)),
                                 !.broadcasts = Append(f.broadcasts, TxOf(f)),
                                 !.pc = "broadcast"]
    /\ UNCHANGED << codecVars, appVars >>

\* The broadcaster rejects the transaction or times out
RevealBroadcastThrows ==
    /\ rv.pc = "broadcast"
    /\ rv' = Thrown(rv, "Request failed")
    /\ UNCHANGED << codecVars, appVars >>

\* The broadcaster answers with the transaction id
RevealReturns ==
    /\ rv.pc = "broadcast"
    /\ rv' = [rv EXCEPT !.pc = "returned",
                        !.result = Some(revealResult(BroadcastTxId, Get(rv.fee)))]
    /\ UNCHANGED << codecVars, appVars >>

NextReveal ==
    \/ RevealPaymentThrows \/ RevealCall \/ RevealFetchThrows \/ RevealNotFound
    \/ RevealInputThrows \/ RevealDataThrows \/ RevealSizeThrows \/ RevealRecipientThrows
    \/ RevealInsufficient \/ RevealSignThrows \/ RevealSigned
    \/ RevealBroadcastThrows \/ RevealReturns

SpecReveal == InitReveal /\ [][NextReveal]_vars


\* The recipient output of a transaction built by createRunestoneReveal: the
\* one added after the data output.
RecipientValue(tx) == tx.outputs[2].value

(***************************************************************************)
(* C7: if the value left for the recipient after fees is at or below the   *)
(* dust threshold (546), reveal construction fails with the insufficient-  *)
(* funds error before any signing call and before any broadcast; no reveal *)
(* whose recipient remainder is <= 546 is ever signed.                     *)
(***************************************************************************)
C7_DustFailsBeforeSigning ==
    /\ (rv.sendValue # None /\ Get(rv.sendValue) <= 546) =>
          /\ rv.pc = "thrown"
          /\ rv.error = "Reveal transaction failed: Insufficient funds after fee calculation"
          /\ rv.signed = << >>
          /\ rv.broadcasts = << >>
    /\ \A i \in 1..Len(rv.signed) :
          Len(rv.signed[i].outputs) = 2 /\ RecipientValue(rv.signed[i]) > 546
    /\ \A i \in 1..Len(rv.broadcasts) : RecipientValue(rv.broadcasts[i]) > 546

\* A funding of 3858 at fee 3312 leaves exactly 546: the call threw, unsigned.
C7_Witness ==
    /\ rv.pc = "thrown" /\ rv.sendValue = Some(546) /\ rv.fee = Some(3312)
    /\ rv.signed = << >>

(***************************************************************************)
(* C8: the miner fee of a reveal is exactly ceil(estimatedSize * feeRate), *)
(* with no other multiplier or later adjustment: 2760 for size 184 at fee  *)
(* rate 15.                                                                *)
(***************************************************************************)
C8_MinerFeeIsSizeTimesRate ==
    rv.pc = "returned" =>
        Get(rv.result).minerFee = Get(rv.estimatedSize) * Get(rv.params).feeRate

(***************************************************************************)
(* C9: the service fee of every successful reveal is 10% of the miner fee  *)
(* clamped to MIN_DEV_FEE..MAX_DEV_FEE; the service fee in the result is   *)
(* never below 1500 and never above 4999.                                  *)
(***************************************************************************)
MIN_DEV_FEE == 1500
MAX_DEV_FEE == 4999

Min(a, b) == IF a < b THEN a ELSE b
Max(a, b) == IF a > b THEN a ELSE b

\* Compared in tenths of a satoshi, so that 10% of the miner fee is exact.
C9_ServiceFeeClamped ==
    rv.pc = "returned" =>
        /\ Get(rv.result).devFee * 10 =
              Min(MAX_DEV_FEE * 10, Max(MIN_DEV_FEE * 10, Get(rv.result).minerFee))
        /\ Get(rv.result).devFee >= MIN_DEV_FEE
        /\ Get(rv.result).devFee <= MAX_DEV_FEE

(***************************************************************************)
(* C10: every reveal transaction that is signed and broadcast contains a   *)
(* service-fee output paying the fixed collection address, whose value is  *)
(* the service fee (devFee) returned in the result.                        *)
(***************************************************************************)
DEV_FEE_ADDRESS == "tb1pehxzgzc6t7fdtttszuv9fu3aprzct56s244yqel65kujru74d3qskg9564"

C10_ServiceFeeOutput ==
    rv.pc = "returned" =>
        \A i \in 1..Len(rv.broadcasts) :
            \E k \in 1..Len(rv.broadcasts[i].outputs) :
                /\ rv.broadcasts[i].outputs[k].address = DEV_FEE_ADDRESS
                /\ rv.broadcasts[i].outputs[k].value = Get(rv.result).devFee


(***************************************************************************)
(* C11: in every successful reveal the value of the recipient (remainder)  *)
(* output is the funding value minus the miner fee and the service fee     *)
(* that the result reports.                                                *)
(***************************************************************************)
C11_RecipientIsRemainder ==
    rv.pc = "returned" =>
        \A i \in 1..Len(rv.broadcasts) :
            RecipientValue(rv.broadcasts[i]) =
                Get(rv.utxo).value - Get(rv.result).minerFee - Get(rv.result).devFee


(***************************************************************************)
(* createRunestoneEtching (utils/leb128.ts).  The service fee is           *)
(* minerFee * 0.1, a number with one decimal digit, so every amount of     *)
(* this call (the values of its outputs, devFee, minerFee, totalFee,       *)
(* changeAmount) is kept in TENTHS OF A SATOSHI.  A call is the record     *)
(*   pc          "getAccounts", "fetchUTXOs", "signPsbt", "pushPsbt" (the  *)
(*               await the call is suspended on), "returned" or "thrown"   *)
(*   params      its argument; address the wallet's account                *)
(*   utxos, utxo, minerFee, devFee, totalFee, changeAmount   its locals    *)
(*   inputs, outputs   the PSBT under construction                         *)
(*   signed      the transactions handed to signPsbt, in order             *)
(*   broadcasts  the transactions handed to pushPsbt, in order             *)
(*   result      the object returned, error the message thrown             *)
(***************************************************************************)
DUST_THRESHOLD == 546
BASE_TX_SIZE   == 150

IdleEtching ==
    [ address |-> None, broadcasts |-> << >>, changeAmount |-> None, devFee |-> None,
      error |-> "", inputs |-> << >>, minerFee |-> None, outputs |-> << >>,
      params |-> None, pc |-> "idle", result |-> None, signed |-> << >>,
      totalFee |-> None, utxo |-> None, utxos |-> None ]

\* Buffer.from(value.toString(16).padStart(2 * n, '0'), 'hex') for a value of
\* at most 2 * n hexadecimal digits: its n bytes, most significant first
RECURSIVE hexBytes(_, _)
hexBytes(value, n) ==
    IF n = 0 THEN << >> ELSE hexBytes(value \div 256, n - 1) \o << value % 256 >>

\* The payload of the etching transaction: a tag byte before each value, the
\* integers as fixed-width bytes, the name and the symbol as UTF-8.
etchingPayload(runeOptions) ==
       << 1 >> \o hexBytes(runeOptions.premine, 8)
    \o << 2 >> \o utf8(runeOptions.runeName)
    \o (IF IsSome(runeOptions.divisibility)
        THEN << 3, Get(runeOptions.divisibility) % 256 >> ELSE << >>)
    \o (IF Truthy(runeOptions.symbol)
        THEN << 4 >> \o utf8(Get(runeOptions.symbol)) ELSE << >>)
    \o (IF IsSome(runeOptions.terms)
        THEN LET terms == Get(runeOptions.terms)
             IN     (IF IsSome(terms.amount)
                     THEN << 5 >> \o hexBytes(Get(terms.amount), 8) ELSE << >>)
                 \o (IF IsSome(terms.cap)
                     THEN << 6 >> \o hexBytes(Get(terms.cap), 8) ELSE << >>)
                 \o (IF IsSome(terms.heightStart)
                     THEN << 7 >> \o hexBytes(Get(terms.heightStart), 4) ELSE << >>)
                 \o (IF IsSome(terms.heightEnd)
                     THEN << 8 >> \o hexBytes(Get(terms.heightEnd), 4) ELSE << >>)
        ELSE << >>)

\* utxos.filter(utxo => utxo.status?.confirmed)
confirmedOf(utxos) == SelectSeq(utxos, LAMBDA u : u.confirmed)

\* confirmedUtxos.sort((a, b) => b.value - a.value)[0]: the sort is stable, so
\* the first of the outputs of the largest value
selectedOf(confirmedUtxos) ==
    LET first == CHOOSE i \in 1..Len(confirmedUtxos) :
                    /\ \A j \in 1..Len(confirmedUtxos) :
                          confirmedUtxos[j].value <= confirmedUtxos[i].value
                    /\ \A j \in 1..(i - 1) :
                          confirmedUtxos[j].value < confirmedUtxos[i].value
    IN  confirmedUtxos[first]

\* Math.ceil(baseTxSize * feeRate) for an integer fee rate, in tenths
etchingMinerFee(payload, feeRate) == (BASE_TX_SIZE + Len(payload)) * feeRate * 10

\* Math.min(MAX_DEV_FEE, Math.max(MIN_DEV_FEE, minerFee * 0.1)), in tenths: a
\* tenth of the miner fee in tenths is the miner fee in satoshis
etchingDevFee(minerFee) ==
    Min(MAX_DEV_FEE * 10, Max(MIN_DEV_FEE * 10, minerFee \div 10))

\* Math.ceil((baseTxSize + 34) * feeRate), in tenths
etchingTotalFee(payload, feeRate) == (BASE_TX_SIZE + Len(payload) + 34) * feeRate * 10

\* The call after the synchronous part that follows fetchUTXOs, up to the
\* final verification
EtchingBuilt(call, utxos) ==
    LET params   == Get(call.params)
        selected == selectedOf(confirmedOf(utxos))
        payload  == etchingPayload(params.runeOptions)
        minerFee == etchingMinerFee(payload, params.feeRate)
        devFee   == etchingDevFee(minerFee)
        totalFee == etchingTotalFee(payload, params.feeRate)
        change   == selected.value * 10 - totalFee - devFee
    IN  [call EXCEPT
           !.changeAmount = Some(change),
           !.devFee = Some(devFee),
           !.inputs = << [txid |-> selected.txid, value |-> selected.value * 10,
                          vout |-> selected.vout] >>,
           !.minerFee = Some(IF change > DUST_THRESHOLD * 10 THEN minerFee
                             ELSE IF change > 0 THEN minerFee + change
                             ELSE minerFee),
           !.outputs =    << Output("OP_RETURN",
                                    utf8(<< 82, 117, 110, 101, 115, 116, 111, 110, 101 >>)
                                      \o << 1 >> \o payload, 0),
                             Output(DEV_FEE_ADDRESS, << >>, devFee) >>
                       \o (IF change > DUST_THRESHOLD * 10
                           THEN << Output(Get(call.address), << >>, change) >>
                           ELSE << >>),
           !.totalFee = Some(totalFee),
           !.utxo = Some(selected),
           !.utxos = Some(utxos)]

\* selectedUtxo.value < totalFee + devFee
etchingShort(call) ==
    call.inputs[1].value < Get(call.totalFee) + Get(call.devFee)

\* The calls of the PSBT library in the synchronous part, in the order of the
\* code: new Psbt and addInput with address.toOutputScript; the runestone
\* payload and the addOutput of the data-carrying output with script.compile;
\* the addOutput of the service fee; the addOutput of the change; toHex
EtchingSites == { "addInput", "runestone", "devFee", "change", "toHex" }

\* The change output is added only above the dust threshold, and toHex comes
\* after the final verification
etchingReaches(built, site) ==
    CASE site = "change" -> Get(built.changeAmount) > DUST_THRESHOLD * 10
      [] site = "toHex"  -> ~etchingShort(built)
      [] OTHER           -> TRUE

\* The call when the library call of the site throws: the locals assigned and
\* the inputs and outputs added before it
EtchingBuiltTo(call, utxos, site) ==
    LET built    == EtchingBuilt(call, utxos)
        params   == Get(call.params)
        minerFee == etchingMinerFee(etchingPayload(params.runeOptions), params.feeRate)
        selected == [call EXCEPT !.utxo = built.utxo, !.utxos = built.utxos]
        withIn   == [selected EXCEPT !.inputs = built.inputs]
        withData == [withIn EXCEPT !.devFee = built.devFee,
                                   !.minerFee = Some(minerFee),
                                   !.outputs = SubSeq(built.outputs, 1, 1)]
        withFee  == [withData EXCEPT !.changeAmount = built.changeAmount,
                                     !.outputs = SubSeq(built.outputs, 1, 2),
                                     !.totalFee = built.totalFee]
    IN  CASE site = "addInput"  -> selected
          [] site = "runestone" -> withIn
          [] site = "devFee"    -> withData
          [] site = "change"    -> withFee
          [] OTHER              -> built

EtchingThrown(call, message) == [call EXCEPT !.pc = "thrown", !.error = message]

\* { txId, totalFee: minerFee + devFee, devFee, minerFee }
etchingResult(txId, call) ==
    [ devFee |-> Get(call.devFee), minerFee |-> Get(call.minerFee),
      totalFee |-> Get(call.minerFee) + Get(call.devFee), txId |-> txId ]

(***************************************************************************)
(* One call of createRunestoneReveal, of createRunestoneEtching or of a    *)
(* lookup of unspent outputs, with every answer of the wallet, of the data *)
(* provider and of the broadcaster.                                        *)
(***************************************************************************)
WalletAddress   == "wallet"
EtchingFeeRates == { 1, 101, 400 }
EtchingValues   == { 546, 2000, 2241, 2242, 100000 }
EtchingUtxos    == [ confirmed : BOOLEAN, txid : { 1 }, value : EtchingValues, vout : 0..1 ]
EtchingLists    == ListsOf(EtchingUtxos)

\* "A" alone, and "MY•RUNE" with a symbol, a divisibility and mint terms.
EtchingOptions ==
    { [ divisibility |-> None, premine |-> 1000, runeName |-> << 65 >>,
        symbol |-> None, terms |-> None ],
      [ divisibility |-> Some(2), premine |-> 1000000, runeName |-> NameMyRune,
        symbol |-> Some(StrCurrency),
        terms |-> Some([amount |-> Some(1000), cap |-> Some(21000),
                        heightEnd |-> None, heightStart |-> Some(840000)]) ] }

EtchingParams == [ feeRate : EtchingFeeRates, runeOptions : EtchingOptions ]

\* The call, up to the await of window.unisat.getAccounts
EtchingCall ==
    /\ rv.pc = "idle"
    /\ \E params \in EtchingParams :
          rv' = [IdleEtching EXCEPT !.params = Some(params), !.pc = "getAccounts"]
    /\ UNCHANGED << codecVars, appVars >>

\* The wallet refuses
EtchingAccountsThrows ==
    /\ rv.pc = "getAccounts"
    /\ rv' = EtchingThrown(rv, "User rejected the request")
    /\ UNCHANGED << codecVars, appVars >>

\* The wallet has no account
EtchingNoAddress ==
    /\ rv.pc = "getAccounts"
    /\ rv' = EtchingThrown(rv, "No address found in Unisat")
    /\ UNCHANGED << codecVars, appVars >>

\* The wallet answers with its account; up to the await of fetchUTXOs
EtchingAccount ==
    /\ rv.pc = "getAccounts"
    /\ rv' = [rv EXCEPT !.address = Some(WalletAddress), !.pc = "fetchUTXOs"]
    /\ UNCHANGED << codecVars, appVars >>

\* fetchUTXOs throws: axios.get rejects
EtchingFetchThrows ==
    /\ rv.pc = "fetchUTXOs"
    /\ rv' = EtchingThrown(rv, "Request failed")
    /\ UNCHANGED << codecVars, appVars >>

\* No output of the list is confirmed
EtchingNoConfirmed ==
    /\ rv.pc = "fetchUTXOs"
    /\ \E utxos \in EtchingLists :
          /\ Len(confirmedOf(utxos)) = 0
          /\ rv' = EtchingThrown([rv EXCEPT !.utxos = Some(utxos)],
                                 "No confirmed UTXOs available")
    /\ UNCHANGED << codecVars, appVars >>

\* The final verification fails
EtchingInsufficient ==
    /\ rv.pc = "fetchUTXOs"
    /\ \E utxos \in EtchingLists :
          /\ Len(confirmedOf(utxos)) > 0
          /\ etchingShort(EtchingBuilt(rv, utxos))
          /\ rv' = EtchingThrown(EtchingBuilt(rv, utxos), "Insufficient funds")
    /\ UNCHANGED << codecVars, appVars >>

\* A call of the PSBT library throws while the transaction is put together,
\* at one of the sites of EtchingSites: the call keeps what it had computed
\* when it reached the site
EtchingBuildThrows ==
    /\ rv.pc = "fetchUTXOs"
    /\ \E utxos \in EtchingLists, site \in EtchingSites :
          /\ Len(confirmedOf(utxos)) > 0
          /\ etchingReaches(EtchingBuilt(rv, utxos), site)
          /\ rv' = EtchingThrown(EtchingBuiltTo(rv, utxos, site), "PSBT error")
    /\ UNCHANGED << codecVars, appVars >>

\* The transaction is handed to the wallet; up to the await of signPsbt
EtchingToWallet ==
    /\ rv.pc = "fetchUTXOs"
    /\ \E utxos \in EtchingLists :
          /\ Len(confirmedOf(utxos)) > 0
          /\ ~etchingShort(EtchingBuilt(rv, utxos))
          /\ LET b == EtchingBuilt(rv, utxos)
             IN  rv' = [b EXCEPT !.signed = Append(b.signed, TxOf(b)),
                                 !.pc = "signPsbt"]
    /\ UNCHANGED << codecVars, appVars >>

\* The wallet refuses to sign
EtchingSignThrows ==
    /\ rv.pc = "signPsbt"
    /\ rv' = EtchingThrown(rv, "User rejected the request")
    /\ UNCHANGED << codecVars, appVars >>

\* The wallet signs; up to the await of pushPsbt
EtchingSigned ==
    /\ rv.pc = "signPsbt"
    /\ rv' = [rv EXCEPT !.broadcasts = Append(rv.broadcasts, TxOf(rv)),
                        !.pc = "pushPsbt"]
    /\ UNCHANGED << codecVars, appVars >>

\* The broadcast fails
EtchingPushThrows ==
    /\ rv.pc = "pushPsbt"
    /\ rv' = EtchingThrown(rv, "Broadcast failed")
    /\ UNCHANGED << codecVars, appVars >>

\* The wallet answers with the transaction id
EtchingReturns ==
    /\ rv.pc = "pushPsbt"
    /\ rv' = [rv EXCEPT !.pc = "returned",
                        !.result = Some(etchingResult(BroadcastTxId, rv))]
    /\ UNCHANGED << codecVars, appVars >>

NextEtching ==
    \/ EtchingCall \/ EtchingAccountsThrows \/ EtchingNoAddress \/ EtchingAccount
    \/ EtchingFetchThrows \/ EtchingNoConfirmed \/ EtchingInsufficient
    \/ EtchingBuildThrows \/ EtchingToWallet \/ EtchingSignThrows \/ EtchingSigned
    \/ EtchingPushThrows \/ EtchingReturns

\* createRunestoneEtching, for every list fetchUTXOs may return: the output it
\* takes from the confirmed ones is one of them, and none of them is worth more.
EtchingSelectsMaximum ==
    \A utxos \in EtchingLists :
        LET confirmedUtxos == confirmedOf(utxos)
        IN  Len(confirmedUtxos) > 0 =>
              /\ \E i \in 1..Len(confirmedUtxos) : confirmedUtxos[i] = selectedOf(confirmedUtxos)
              /\ \A j \in 1..Len(confirmedUtxos) :
                    confirmedUtxos[j].value <= selectedOf(confirmedUtxos).value

\* The reduce of handleSubmit on its own, for every list of up to MaxUtxos
\* outputs worth 546, 1000 or 2000 with distinct outpoints: the output it returns
\* is of the list, and none of the list is worth more.
LongLists ==
    LET utxos == [ confirmed : { TRUE }, txid : { 1 }, value : { 546, 1000, 2000 },
                   vout : 0..(MaxUtxos - 1) ]
    IN  UNION { { l \in [1..n -> utxos] : DistinctOutpoints(l) } : n \in 1..MaxUtxos }

ReduceSelectsMaximum ==
    \A utxos \in LongLists :
        /\ \E i \in 1..Len(utxos) : utxos[i] = largestUtxo(utxos)
        /\ \A j \in 1..Len(utxos) : utxos[j].value <= largestUtxo(utxos).value

(***************************************************************************)
(* C4: when several unspent outputs exist at the commit address, the       *)
(* funding poll selects one whose value is the maximum over the list the   *)
(* provider returned, whatever the order of the list: every step that      *)
(* stores a funding outpoint stores one of the list returned in that step, *)
(* and no output of that list is worth more.  The selection of             *)
(* createRunestoneEtching among the confirmed outputs of the wallet        *)
(* address takes a maximum as well.                                        *)
(***************************************************************************)
C4_SelectsMaximum ==
    [][Selects =>
        /\ PollSettles
        /\ polled' # None
        /\ \E i \in 1..Len(Get(polled')) : SameOutpoint(Get(polled')[i], Get(commitUtxo'))
        /\ IsMaximum(Get(polled'), SelectedIn(Get(polled'), Get(commitUtxo')))
        /\ ReduceSelectsMaximum
        /\ EtchingSelectsMaximum]_vars

\* Outputs of 546 and 1000 were polled, the larger one first, and it was selected.
C4_Witness ==
    /\ commitUtxo # None /\ polled # None
    /\ Len(Get(polled)) >= 2
    /\ Get(polled)[1].value = 1000
    /\ \E j \in 2..Len(Get(polled)) : Get(polled)[j].value = 546
    /\ SelectedIndex = 1

(***************************************************************************)
(* The lookups of unspent outputs on their own: fetchUTXOs of              *)
(* utils/bitcoin.ts, its caller createRuneEtchingPSBT, and listUnspent.    *)
(* A call is the record                                                    *)
(*   call    the function called                                           *)
(*   pc      "axios.get" (the await it is suspended on), "returned" or     *)
(*           "thrown"                                                      *)
(*   params  the fee rate (createRuneEtchingPSBT), ok whether the data     *)
(*           provider answered, utxos the list it answered with            *)
(*   result  what the call returned, error the message thrown              *)
(***************************************************************************)
\* The output fetchUTXOs returns from its catch block; its txid of 64 zeros
\* is 0 here.
MockUtxo == [confirmed |-> TRUE, txid |-> 0, value |-> 10000, vout |-> 0]

LookupCalls == { "fetchUTXOs", "createRuneEtchingPSBT", "listUnspent" }

\* createRuneEtchingPSBT after its fetchUTXOs: the values it returns, whatever
\* the list is
etchingPSBT(feeRate, txId) ==
    [ changeAmount |-> 10000 - 150 * feeRate, fee |-> 150 * feeRate,
      totalInput |-> 10000, txId |-> txId ]

\* The call, up to the await of axios.get.  createRuneEtchingPSBT first
\* computes the spacers and the payload with utils/runes and derives the
\* address from the key: when one of these throws, the call is rejected before
\* anything is requested
LookupCall ==
    /\ rv.pc = "idle"
    /\ \E c \in LookupCalls, feeRate \in FeeRates, reached \in BOOLEAN :
          /\ ~reached => c = "createRuneEtchingPSBT"
          /\ rv' = [ call |-> c,
                     error |-> IF reached THEN "" ELSE "Payload error",
                     ok |-> None,
                     params |-> IF c = "createRuneEtchingPSBT" THEN Some(feeRate) ELSE None,
                     pc |-> IF reached THEN "axios.get" ELSE "thrown",
                     result |-> None, utxos |-> None ]
    /\ UNCHANGED << codecVars, appVars >>

\* The data provider answers with a list
LookupAnswered ==
    /\ rv.pc = "axios.get"
    /\ \E utxos \in RevealLists :
          rv' = [rv EXCEPT
                   !.ok = Some(TRUE),
                   !.pc = "returned",
                   !.result = IF rv.call = "createRuneEtchingPSBT"
                              THEN Some(etchingPSBT(Get(rv.params), BroadcastTxId))
                              ELSE Some(utxos),
                   !.utxos = Some(utxos)]
    /\ UNCHANGED << codecVars, appVars >>

\* The request fails or times out, or (listUnspent) the status is not 200:
\* listUnspent throws; fetchUTXOs returns the mock output from its catch block,
\* and createRuneEtchingPSBT goes on with it
LookupFailed ==
    /\ rv.pc = "axios.get"
    /\ rv' = IF rv.call = "listUnspent"
             THEN [rv EXCEPT !.error = "UTXO fetch failed", !.ok = Some(FALSE),
                             !.pc = "thrown"]
             ELSE [rv EXCEPT
                     !.ok = Some(FALSE),
                     !.pc = "returned",
                     !.result = IF rv.call = "createRuneEtchingPSBT"
                                THEN Some(etchingPSBT(Get(rv.params), BroadcastTxId))
                                ELSE Some(<< MockUtxo >>),
                     !.utxos = Some(<< MockUtxo >>)]
    /\ UNCHANGED << codecVars, appVars >>

NextLookup == LookupCall \/ LookupAnswered \/ LookupFailed

NextTx == NextReveal \/ NextEtching \/ NextLookup

SpecTx == InitReveal /\ [][NextTx]_vars


(***************************************************************************)
(* The App flow with its third phase.  handleSubmit runs for every submit  *)
(* event of the form.  A click on the rendered button is one source of     *)
(* them.  After a funding poll has selected an output the status is still  *)
(* 'fetchingUTXO' and the button is rendered disabled; a click goes on to  *)
(* phase 3 when the status has changed since, which a second poll started  *)
(* in the same task does when it is answered with no output or fails       *)
(* (status 'error').  The other source is form.requestSubmit(), which      *)
(* checks the required inputs and does not look at the button: it runs     *)
(* handleSubmit in every phase, also while an earlier handler is           *)
(* suspended.  'Create Another Rune' is an event like the others: a submit *)
(* dispatched after it in the same task still meets the handler of the     *)
(* render that showed the result.  The library calls inside                *)
(* createRunestoneReveal either return or throw, whether or not a key pair *)
(* was passed (App passes none); bitcoin.payments.p2tr is given the key it *)
(* accepted when the commit address was made.  SpecApp, SpecForm and       *)
(* SpecFlow are the same App with different inputs: SpecApp has every      *)
(* answer to the funding poll, SpecForm the forms with a refused rune      *)
(* name, SpecFlow the submit events of form.requestSubmit().               *)
(***************************************************************************)

FlowUtxos == [ confirmed : { TRUE }, txid : { 1 }, value : { 546, 10000 }, vout : { 0 } ]
FlowLists == ListsOf(FlowUtxos)
FlowSizes == { 184 }

FlowFormValues ==
    [ address  |-> { GoodAddress },
      runeName |-> { NameMyRune } ]

\* runeOptions as phase 3 builds them from the form
revealOptions(form) ==
    [ divisibility |-> form.divisibility,
      premine |-> parseDecimal(form.premine),
      runeName |-> toUpperCase(form.runeName),
      symbol |-> form.symbol,
      terms |-> IF form.mintable
                THEN Some([amount |-> parseDecimal(form.mintAmount),
                           cap |-> parseDecimal(form.mintCap),
                           heightStart |-> 840000])
                ELSE None ]

\* The argument of createRunestoneReveal in phase 3: no keyPair property
revealParams(form, key, utxo) ==
    [ commit |-> [internalKey |-> key, keyPair |-> None, txid |-> utxo.txid,
                  vout |-> utxo.vout],
      feeRate |-> 15, recipient |-> form.address, runeOptions |-> revealOptions(form) ]

IsReveal(p) == p.phase = "reveal"

RevealsInFlight == { i \in 1..Len(pending) : IsReveal(pending[i]) }

\* What psbt.addOutput throws for the address of the form
FlowAddressErrors == { "tb1qqqqqqqqqqqqqqqqqqqqqqqqq has no matching Script" }

\* What a call suspended on listUnspent becomes when listUnspent settles: it
\* has thrown, or it is suspended on the broadcast.
RevealOutcomes(call, lists, sizes) ==
    LET commit   == Get(call.params).commit
        found    == { u \in lists : findCommitUtxo(u, commit) # None }
        priced   == { Priced(call, u, size) : u \in found, size \in sizes }
        fundedOf == { Funded(call, u, size) : u \in found, size \in sizes }
        funded   == { f \in fundedOf : ~isDust(Get(f.sendValue)) }
    IN       { Thrown(call, "UTXO fetch failed") }
        \cup { Thrown([call EXCEPT !.utxos = Some(u)], "Commit UTXO not found or unconfirmed") :
                   u \in lists \ found }
        \cup { Thrown(Found(call, u), message) : u \in found, message \in InputErrors }
        \cup { Thrown(WithInput(call, u), message) : u \in found, message \in ScriptErrors }
        \cup { Thrown(Built(call, u), "Not finalized") : u \in found }
        \cup { Thrown(q, message) :
                   q \in { q \in priced : ~isDust(Get(q.sendValue)) },
                   message \in FlowAddressErrors }
        \cup { Thrown(q, "Insufficient funds after fee calculation") :
                   q \in { q \in priced : isDust(Get(q.sendValue)) } }
        \cup { Thrown([f EXCEPT !.signed = Append(f.signed, TxOf(f))], message) :
                   f \in funded, message \in SignErrors }
        \cup { [f EXCEPT !.signed = Append(f.signed, TxOf(f)),
                         !.broadcasts = Append(f.broadcasts, TxOf(f)),
                         !.pc = "broadcast"] : f \in funded }

\* What is kept of a call that has settled
Settled(call) ==
    [ broadcasts |-> call.broadcasts, commit |-> Get(call.params).commit, pc |-> call.pc,
      signed |-> call.signed ]

FlowInputChange == InputChangeTo(FlowFormValues)

FlowPollFunded == PollFundedFrom(FlowLists)

\* Phase 3, up to the await of createRunestoneReveal (which runs to its own
\* await of listUnspent): the handler reads the outpoint, the key and the form
\* of its render
RevealBy(source) ==
    /\ Dispatched(source)
    /\ rendered.commitAddr # None /\ rendered.commitUtxo # None /\ rendered.commitKey # None
    /\ Len(calls) + Cardinality(RevealsInFlight) < MaxCalls
    /\ error' = ""
    /\ txResult' = None
    /\ status' = "creatingReveal"
    /\ pending' = Append(pending,
          [call |-> [IdleCall EXCEPT
                        !.params = Some(revealParams(rendered.formData,
                                                     Get(rendered.commitKey),
                                                     Get(rendered.commitUtxo))),
                        !.pc = "listUnspent"],
           commitAddr |-> Get(rendered.commitAddr), phase |-> "reveal",
           started |-> Len(calls), status |-> rendered.status])
    /\ polled' = None
    /\ UNCHANGED << codecVars, commitAddr, commitKey, commitUtxo, formData,
                    nextKey, microtasks, resuming, calls, rv, rendered >>

\* A click on the button while it is enabled
SubmitReveal == RevealBy("click")

\* form.requestSubmit(), in every phase
RequestInvalid == InvalidBy("requestSubmit")

RequestCommit == CommitBy("requestSubmit")

RequestCommitThrows == CommitThrowsBy("requestSubmit")

RequestPoll == PollBy("requestSubmit")

RequestReveal == RevealBy("requestSubmit")

\* createRunestoneReveal throws, before or after its broadcast: the handler's catch
FlowRevealThrows ==
    \E i \in RevealsInFlight :
      \E c \in IF pending[i].call.pc = "listUnspent"
                THEN { o \in RevealOutcomes(pending[i].call, FlowLists, FlowSizes) :
                         o.pc = "thrown" }
                ELSE { Thrown(pending[i].call, "Request failed") } :
        /\ BetweenTasks
        /\ CatchOf(pending[i].status, c.error)
        /\ calls' = Append(calls, Settled(c))
        /\ pending' = Without(pending, i)
        /\ polled' = None
        /\ UNCHANGED << codecVars, commitAddr, commitKey, txResult, formData,
                        nextKey, rv, microtasks, events, resuming >>
        /\ rendered' = Snapshot'

\* createRunestoneReveal has signed its transaction and awaits the broadcast
FlowRevealSigned ==
    \E i \in RevealsInFlight :
      \E c \in RevealOutcomes(pending[i].call, FlowLists, FlowSizes) :
        /\ BetweenTasks
        /\ pending[i].call.pc = "listUnspent"
        /\ c.pc = "broadcast"
        /\ pending' = [pending EXCEPT ![i].call = c]
        /\ polled' = None
        /\ UNCHANGED << codecVars, commitAddr, commitKey, commitUtxo, status,
                        error, txResult, formData, nextKey, calls, rv,
                        microtasks, events, resuming, rendered >>

\* createRunestoneReveal returns: setTxResult(revealRes); setStatus('success')
FlowRevealReturns ==
    \E i \in RevealsInFlight :
        /\ BetweenTasks
        /\ pending[i].call.pc = "broadcast"
        /\ LET c == [pending[i].call EXCEPT
                        !.pc = "returned",
                        !.result = Some(revealResult(BroadcastTxId, Get(pending[i].call.fee)))]
           IN  /\ txResult' = c.result
               /\ calls' = Append(calls, Settled(c))
        /\ status' = "success"
        /\ pending' = Without(pending, i)
        /\ polled' = None
        /\ UNCHANGED << codecVars, commitAddr, commitKey, commitUtxo, error,
                        formData, nextKey, rv, microtasks, events, resuming >>
        /\ rendered' = Snapshot'

\* The 'Create Another Rune' button, rendered with the result: five set calls
CreateAnother ==
    /\ EventDispatched
    /\ rendered.txResult # None
    /\ commitAddr' = None
    /\ commitKey' = None
    /\ commitUtxo' = None
    /\ status' = "idle"
    /\ txResult' = None
    /\ polled' = None
    /\ UNCHANGED << codecVars, error, formData, pending, nextKey, microtasks,
                    resuming, rendered, calls, rv >>

\* The App under clicks, with every answer of the data provider to the funding
\* poll
NextApp ==
    \/ FlowInputChange \/ SubmitInvalid \/ SubmitCommit \/ SubmitCommitThrows
    \/ CommitResumes \/ Renders
    \/ SubmitPoll \/ PollEmpty \/ PollFunded \/ PollThrows \/ TryAgain
    \/ SubmitReveal \/ FlowRevealThrows \/ FlowRevealSigned \/ FlowRevealReturns
    \/ CreateAnother

SpecApp == InitApp /\ [][NextApp]_vars

\* The App under clicks, with the forms of FormValues: a rune name that
\* validateForm refuses is among them
NextForm ==
    \/ InputChange \/ SubmitInvalid \/ SubmitCommit \/ SubmitCommitThrows
    \/ CommitResumes \/ Renders
    \/ SubmitPoll \/ PollEmpty \/ FlowPollFunded \/ PollThrows \/ TryAgain
    \/ SubmitReveal \/ FlowRevealThrows \/ FlowRevealSigned \/ FlowRevealReturns
    \/ CreateAnother

SpecForm == InitApp /\ [][NextForm]_vars

\* The App under clicks and form.requestSubmit()

NextFlow ==
    \/ FlowInputChange \/ SubmitInvalid \/ SubmitCommit \/ SubmitCommitThrows
    \/ CommitResumes \/ Renders
    \/ SubmitPoll \/ PollEmpty \/ FlowPollFunded \/ PollThrows \/ TryAgain
    \/ RequestInvalid \/ RequestCommit \/ RequestCommitThrows \/ RequestPoll
    \/ RequestReveal
    \/ SubmitReveal \/ FlowRevealThrows \/ FlowRevealSigned \/ FlowRevealReturns
    \/ CreateAnother

SpecFlow == InitApp /\ [][NextFlow]_vars


\* The handler of pending[i] awaited createRunestoneReveal and, in this step,
\* the call threw and the handler's catch ran.
RevealFailed(i) ==
    /\ i \in RevealsInFlight
    /\ pending' = Without(pending, i)
    /\ Len(calls') = Len(calls) + 1
    /\ calls'[Len(calls')].pc = "thrown"

(***************************************************************************)
(* C12: when a step of the reveal phase throws, the flow goes to the error *)
(* state and the selected funding outpoint, the commit address and the     *)
(* commit key are all kept, so that the next submit goes to reveal         *)
(* construction again without a funding poll.                              *)
(***************************************************************************)
C12_RevealFailureKeepsCommit ==
    [][ \A i \in 1..Len(pending) :
          RevealFailed(i) => /\ status' = "error"
                             /\ commitUtxo' = commitUtxo
                             /\ commitAddr' = commitAddr
                             /\ commitKey' = commitKey ]_vars

SameCommit(c, d) == c.txid = d.txid /\ c.vout = d.vout /\ c.internalKey = d.internalKey

CommitOf(p) == Get(p.call.params).commit

(***************************************************************************)
(* C13: at no time are two createRunestoneReveal calls in flight for the   *)
(* same funding outpoint.                                                  *)
(***************************************************************************)
C13_OneRevealInFlight ==
    \A i, j \in RevealsInFlight :
        i # j => ~(/\ CommitOf(pending[i]).txid = CommitOf(pending[j]).txid
                   /\ CommitOf(pending[i]).vout = CommitOf(pending[j]).vout)

\* In this step a submit started a createRunestoneReveal call.
RevealStarted ==
    /\ Len(pending') = Len(pending) + 1
    /\ IsReveal(pending'[Len(pending')])
    /\ SubSeq(pending', 1, Len(pending)) = pending

(***************************************************************************)
(* C14: once a reveal has succeeded for a commit, no later submit starts   *)
(* another createRunestoneReveal with the same commit (address, key,       *)
(* outpoint).                                                              *)
(***************************************************************************)
C14_CommitConsumedOnce ==
    [][ RevealStarted =>
          \A k \in 1..Len(calls) :
              ~(/\ calls[k].pc = "returned"
                /\ SameCommit(calls[k].commit, CommitOf(pending'[Len(pending')]))) ]_vars

\* The call signed a transaction, posted it, and the broadcast failed.
BroadcastFailed(c) == c.pc = "thrown" /\ c.broadcasts # << >>

(***************************************************************************)
(* C16: if signing succeeds but the broadcast fails, the signed            *)
(* transaction is kept: a retry started after the failure posts it again   *)
(* without a second signing request for it.                                *)
(***************************************************************************)
C16_NoSecondSigning ==
    \A k \in 1..Len(calls) :
        BroadcastFailed(calls[k]) =>
            \A i \in RevealsInFlight :
                pending[i].started >= k =>
                    \A n \in 1..Len(pending[i].call.signed) :
                        \A m \in 1..Len(calls[k].signed) :
                            pending[i].call.signed[n] # calls[k].signed[m]


\* The etching parameters of a reveal as options of createRunestonePayload.
etchingOptions(runeOptions) ==
    [ divisibility |-> Some(runeOptions.divisibility),
      mint |-> None,
      pointer |-> None,
      premine |-> Some(runeOptions.premine),
      runeName |-> Some(runeOptions.runeName),
      spacers |-> Some(calculateSpacers(runeOptions.runeName)),
      symbol |-> Some(runeOptions.symbol),
      terms |-> IF IsSome(runeOptions.terms)
                THEN Some([amount |-> Some(Get(runeOptions.terms).amount),
                           cap |-> Some(Get(runeOptions.terms).cap),
                           heightEnd |-> None,
                           heightStart |-> Some(Get(runeOptions.terms).heightStart),
                           offsetEnd |-> None,
                           offsetStart |-> None])
                ELSE None,
      turbo |-> None ]

\* The bytes of the framed payload, chunk after chunk.
framedPayload(runeOptions) ==
    Concat(createRunestoneEnvelope(createRunestonePayload(etchingOptions(runeOptions)).bytes))

(***************************************************************************)
(* C15: the zero-value data output of the reveal transaction carries       *)
(* exactly the bytes of createRunestoneEnvelope(createRunestonePayload(    *)
(* spec)): the rune name, the premine and the terms as tagged varints.     *)
(***************************************************************************)
C15_DataOutputIsFramedPayload ==
    rv.outputs # << >> =>
        /\ rv.outputs[1].value = 0
        /\ rv.outputs[1].data = framedPayload(Get(rv.params).runeOptions)


\* What the form must satisfy for an etching to start.
FormValid(form) ==
    /\ addressRegex(form.address)
    /\ runeNameRegex(form.runeName)
    /\ Len(form.runeName) <= 28
    /\ digitsRegex(form.premine)
    /\ form.mintable => digitsRegex(form.mintAmount) /\ digitsRegex(form.mintCap)

\* In this step a submit event met the handler of a render without a commit
\* address: handleSubmit ran its first phase.
StartsEtching ==
    \E source \in SubmitSources :
        InvalidBy(source) \/ CommitBy(source) \/ CommitThrowsBy(source)

Unterminated(bytes) == \A i \in 1..Len(bytes) : bytes[i] >= 128

(***************************************************************************)
(* C18: decodeLeb128 fails with a malformed-varint error when the input is *)
(* exhausted before a byte with the continuation bit clear is read (the    *)
(* empty input included); it returns no value for such input.              *)
(***************************************************************************)
C18_UnterminatedFails ==
    (fn = "decodeLeb128" /\ Unterminated(arg)) => ~ret.ok


(***************************************************************************)
(* C19: for every non-negative integer v, encodeLeb128(v) is non-empty,    *)
(* every byte but the last has the continuation bit 0x80 set and the last  *)
(* has it clear; encodeLeb128(0) is the single byte 0x00.                  *)
(***************************************************************************)
C19_ContinuationBits ==
    fn = "leb128" =>
        /\ Len(ret.bytes) >= 1
        /\ \A i \in 1..(Len(ret.bytes) - 1) : ret.bytes[i] >= 128 /\ ret.bytes[i] <= 255
        /\ ret.bytes[Len(ret.bytes)] >= 0 /\ ret.bytes[Len(ret.bytes)] < 128
        /\ arg = 0 => ret.bytes = << 0 >>

\* 300 was encoded as 0xac 0x02.
C19_Witness == fn = "leb128" /\ arg = 300 /\ ret.bytes = << 172, 2 >>


\* A name without its separator glyphs, in upper case.
Stripped(name) ==
    LET kept == SelectSeq(name, LAMBDA c : c # Bullet)
    IN  [i \in 1..Len(kept) |-> IF IsLower(kept[i]) THEN kept[i] - 32 ELSE kept[i]]

AllLetters(s) == \A i \in 1..Len(s) : IsUpper(s[i])

\* The base-26 positional value of a string of letters, A = 0 ... Z = 25, most
\* significant letter first.
RECURSIVE Base26(_)
Base26(s) ==
    IF Len(s) = 0 THEN 0
    ELSE (s[1] - 65) * Pow(26, Len(s) - 1) + Base26(Tail(s))

InsertAt(s, p, c) == SubSeq(s, 1, p) \o << c >> \o SubSeq(s, p + 1, Len(s))

(***************************************************************************)
(* C20: encodeRuneName(name) is the base-26 positional value of the name   *)
(* without its separators and in upper case (A = 0 ... Z = 25, most        *)
(* significant first); a separator inserted at any position, or all        *)
(* separators removed, leave the result unchanged.                         *)
(***************************************************************************)
C20_Base26WithoutSeparators ==
    (fn = "encodeRuneName" /\ AllLetters(Stripped(arg))) =>
        /\ ret.ok
        /\ ret.value = Base26(Stripped(arg))
        /\ \A p \in 0..Len(arg) : encodeRuneName(InsertAt(arg, p, Bullet)) = ret
        /\ encodeRuneName(SelectSeq(arg, LAMBDA c : c # Bullet)) = ret

\* "MY•RUNE" was encoded, to the value of "MYRUNE".
C20_Witness ==
    /\ fn = "encodeRuneName" /\ arg = NameMyRune /\ ret.ok
    /\ ret.value = encodeRuneName(<< 77, 89, 82, 85, 78, 69 >>).value
    /\ ret.value = 153856590


\* Reading a name back from its integer (the repository has no decoder):
\* repeated divmod 26, digits collected least significant first, then reversed;
\* the integer 0 reads as the one letter 'A'.
RECURSIVE decodeDigits(_)
decodeDigits(value) ==
    IF value < 26 THEN << 65 + value >>
    ELSE << 65 + (value % 26) >> \o decodeDigits(value \div 26)

decodeName(value) == Reverse(decodeDigits(value))

\* A valid name: only letters A-Z once stripped, at least one and at most 28.
ValidName(name) ==
    /\ \A i \in 1..Len(name) : IsUpper(name[i]) \/ name[i] = Bullet
    /\ Len(Stripped(name)) >= 1 /\ Len(Stripped(name)) <= 28

(***************************************************************************)
(* C21: name encoding is exactly invertible on valid names: decoding       *)
(* encodeRuneName(n) by repeated divmod 26 yields n without its            *)
(* separators, and two valid names with different stripped forms never     *)
(* encode to the same integer.                                             *)
(***************************************************************************)
C21_NameRoundTrip ==
    (fn = "encodeRuneName" /\ ValidName(arg)) =>
        /\ ret.ok
        /\ decodeName(ret.value) = Stripped(arg)
        /\ \A other \in NameInputs :
              (ValidName(other) /\ Stripped(other) # Stripped(arg))
                  => encodeRuneName(other).value # ret.value


\* A code unit that is neither the separator nor, once in upper case, made of
\* letters A-Z only.
OutsideAZ(c) == c # Bullet /\ \E k \in 1..Len(upperUnit(c)) : ~IsUpper(upperUnit(c)[k])

(***************************************************************************)
(* C22: encodeRuneName fails with the invalid-character error and returns  *)
(* no integer whenever the name, without its separators and in upper case, *)
(* has a character outside A-Z, at whatever position that character is.    *)
(***************************************************************************)
C22_InvalidCharacterFails ==
    (fn = "encodeRuneName" /\ \E i \in 1..Len(arg) : OutsideAZ(arg[i])) => ~ret.ok

\* "MY•R" with '[' as its last character was refused, and so was a digit in
\* the middle of other letters.
C22_Witness ==
    /\ fn = "encodeRuneName" /\ ~ret.ok
    /\ arg \in { << 77, 89, Bullet, 82, 91 >>, << 65, 49, 90 >> }


\* Bit i of an integer in two's complement; every bit from 31 up of a signed
\* 32-bit value is its sign.
BitOf(v, i) == IF i >= 31 THEN v < 0 ELSE (v \div Pow(2, i)) % 2 = 1

(***************************************************************************)
(* C23: calculateSpacers(name) is the bitmask in which bit i is set if and *)
(* only if the separator is at index i of the string as given and i is not *)
(* its last index; "MY•RUNE" gives exactly bit 2, and a separator at the   *)
(* end of the string sets no bit.                                          *)
(***************************************************************************)
C23_SpacerBits ==
    fn = "calculateSpacers" =>
        /\ \A i \in 0..Len(arg) :
              BitOf(ret.value, i) <=> (i < Len(arg) - 1 /\ arg[i + 1] = Bullet)
        /\ arg = NameMyRune => ret.value = 4


\* The positions of the flags field (tag Body, 0) among the fields read back
\* from the payload bytes.
FlagsAt(parsed) == { i \in 1..Len(parsed) : parsed[i].tag = TagBody }

(***************************************************************************)
(* C24: the payload of createRunestonePayload has exactly one flags field; *)
(* its value is Etching (1), plus Terms (2) if and only if mint terms were *)
(* supplied, plus Turbo (4) if and only if turbo was requested, and no     *)
(* other bit.                                                              *)
(***************************************************************************)
C24_FlagsField ==
    (fn = "createRunestonePayload" /\ ret.ok) =>
        LET parsed == parsePayload(ret.bytes)
        IN  /\ Cardinality(FlagsAt(parsed)) = 1
            /\ \A i \in FlagsAt(parsed) :
                  parsed[i].value = FlagEtching
                                      + (IF IsSome(arg.terms) THEN FlagTerms ELSE 0)
                                      + (IF arg.turbo = Some(TRUE) THEN FlagTurbo ELSE 0)

\* A payload with terms and turbo carried the flags 7, and one with turbo
\* given as false and no terms carried the flags 1.
C24_Witness ==
    /\ fn = "createRunestonePayload" /\ ret.ok
    /\ \/ IsSome(arg.terms) /\ arg.turbo = Some(TRUE) /\ ret.bytes[1] = 0 /\ ret.bytes[2] = 7
       \/ arg.terms = None /\ arg.turbo = Some(FALSE) /\ ret.bytes[1] = 0 /\ ret.bytes[2] = 1


(***************************************************************************)
(* C25: createRunestoneEnvelope(payload) returns exactly seven chunks: the *)
(* byte 0x00, the opcode 0x63, the three ASCII bytes of the protocol       *)
(* identifier, the version byte 0x01, the payload bytes unchanged, an      *)
(* empty terminator chunk and the opcode 0x68; only the payload chunk      *)
(* depends on the input.                                                   *)
(***************************************************************************)
C25_SevenChunks ==
    fn = "createRunestoneEnvelope" =>
        ret.value = << << 0 >>, << 99 >>, << 111, 114, 100 >>, << 1 >>, arg, << >>, << 104 >> >>


HasTag(parsed, tag) == \E i \in 1..Len(parsed) : parsed[i].tag = tag

(***************************************************************************)
(* C29: the Divisibility field is in the payload only when divisibility is *)
(* non-zero, and the Spacers field only when the spacer bitmask is         *)
(* non-zero; with divisibility 0 and spacers 0 the payload has neither     *)
(* tag.                                                                    *)
(***************************************************************************)
C29_ZeroFieldsOmitted ==
    (fn = "createRunestonePayload" /\ ret.ok) =>
        LET parsed == parsePayload(ret.bytes)
        IN  /\ HasTag(parsed, TagDivisibility)
                  => (IsSome(arg.divisibility) /\ Get(arg.divisibility) # 0)
            /\ HasTag(parsed, TagSpacers)
                  => (IsSome(arg.spacers) /\ Get(arg.spacers) # 0)


(***************************************************************************)
(* C30: as its documentation states, encodeRuneName maps "A" to 0, "Z" to  *)
(* 25 and "AA" to 26: a name of more letters encodes to a larger integer   *)
(* than every name of fewer letters.                                       *)
(***************************************************************************)
C30_DocumentedValues ==
    (fn = "encodeRuneName" /\ ValidName(arg)) =>
        /\ arg = << 65 >> => ret = [ok |-> TRUE, value |-> 0]
        /\ arg = << 90 >> => ret = [ok |-> TRUE, value |-> 25]
        /\ arg = << 65, 65 >> => ret = [ok |-> TRUE, value |-> 26]
        /\ \A shorter \in NameInputs :
              (ValidName(shorter) /\ Len(Stripped(shorter)) < Len(Stripped(arg)))
                  => encodeRuneName(shorter).value < ret.value


(***************************************************************************)
(* C26: an etching that has a commit address and has observed funding      *)
(* goes on to the reveal attempt and ends in 'success' or 'error': once    *)
(* the funding poll has selected an outpoint and returned, the submit      *)
(* action is enabled, not blocked by the status the poll left behind.      *)
(***************************************************************************)
C26_SubmitEnabledAfterFunding ==
    (commitAddr # None /\ commitUtxo # None /\ pending = << >> /\ txResult = None)
        => SubmitEnabled


\* In this step a submit generated a commit key pair, or stored its address.
CommitGenerated == nextKey' # nextKey \/ (commitAddr = None /\ commitAddr' # None)

\* In this step a submit started a listUnspent call of the funding poll.
PollStarted ==
    /\ Len(pending') = Len(pending) + 1
    /\ pending'[Len(pending')].phase = "listUnspent"
    /\ SubSeq(pending', 1, Len(pending)) = pending

\* In this step the call at position i of `pending` returned or threw.
Settles(i) == pending' = Without(pending, i)

\* In this step the call at position i moved on inside createRunestoneReveal.
Advances(i) ==
    /\ Len(pending') = Len(pending)
    /\ \A k \in 1..Len(pending) : k # i => pending'[k] = pending[k]
    /\ pending'[i] = [pending[i] EXCEPT !.call = pending'[i].call]

\* In this step the funding poll selected an outpoint among those it was given.
PollSelected ==
    /\ \E i \in 1..Len(pending) : pending[i].phase = "listUnspent" /\ Settles(i)
    /\ polled' # None
    /\ \E k \in 1..Len(Get(polled')) : SameOutpoint(Get(polled')[k], Get(commitUtxo'))

(***************************************************************************)
(* C27: the phases happen in order and one per submit: the data provider   *)
(* is polled for funding only once a commit address has been generated,    *)
(* createRunestoneReveal is invoked only when there is a commit key and an *)
(* outpoint that an earlier poll selected, and no submit performs more     *)
(* than one of commit generation, funding poll and reveal.                 *)
(***************************************************************************)
C27_PhasesInOrder ==
    [][ /\ PollStarted =>
              /\ commitAddr # None
              /\ pending'[Len(pending')].commitAddr = Get(commitAddr)
        /\ (commitUtxo' # commitUtxo /\ commitUtxo' # None) => PollSelected
        /\ RevealStarted =>
              /\ commitKey # None /\ commitUtxo # None
              /\ CommitOf(pending'[Len(pending')]).internalKey = Get(commitKey)
              /\ SameOutpoint(CommitOf(pending'[Len(pending')]), Get(commitUtxo))
        /\ ~(CommitGenerated /\ (PollStarted \/ RevealStarted))
        /\ pending' # pending =>
              \/ (PollStarted \/ RevealStarted) /\ ~(PollStarted /\ RevealStarted)
              \/ /\ \E i \in 1..Len(pending) : Settles(i) \/ Advances(i)
                 /\ ~CommitGenerated
      ]_vars


\* The list has the commit outpoint, confirmed.
HasConfirmed(utxos, commit) ==
    \E k \in 1..Len(utxos) :
        utxos[k].txid = commit.txid /\ utxos[k].vout = commit.vout /\ utxos[k].confirmed

IsCommitInput(inputs, commit) ==
    Len(inputs) = 1 /\ inputs[1].txid = commit.txid /\ inputs[1].vout = commit.vout

(***************************************************************************)
(* C28: the transaction createRunestoneReveal builds has one input, the    *)
(* commit outpoint (txid, vout) it was given; if that outpoint is not      *)
(* among the confirmed unspent outputs reported for the commit address,    *)
(* the call fails before any input or output is added and before signing   *)
(* or broadcast.                                                           *)
(***************************************************************************)
C28_SingleCommitInput ==
    rv.params # None =>
        LET commit == Get(rv.params).commit
        IN  /\ rv.inputs # << >> => IsCommitInput(rv.inputs, commit)
            /\ \A n \in 1..Len(rv.signed) : IsCommitInput(rv.signed[n].inputs, commit)
            /\ (rv.utxos # None /\ ~HasConfirmed(Get(rv.utxos), commit)) =>
                  /\ rv.pc = "thrown"
                  /\ rv.error = "Reveal transaction failed: Commit UTXO not found or unconfirmed"
                  /\ rv.inputs = << >> /\ rv.outputs = << >>
                  /\ rv.signed = << >> /\ rv.broadcasts = << >>

\* The provider reported the commit outpoint unconfirmed, beside a confirmed
\* other output, and the call failed with an empty transaction.
C28_Witness ==
    /\ rv.pc = "thrown" /\ rv.utxos # None /\ rv.inputs = << >> /\ rv.outputs = << >>
    /\ \E k \in 1..Len(Get(rv.utxos)) :
          /\ Get(rv.utxos)[k].txid = Get(rv.params).commit.txid
          /\ Get(rv.utxos)[k].vout = Get(rv.params).commit.vout
          /\ ~Get(rv.utxos)[k].confirmed
    /\ \E k \in 1..Len(Get(rv.utxos)) : Get(rv.utxos)[k].confirmed


(***************************************************************************)
(* C31: encodeRuneName applied to the empty string, or to a string made of *)
(* separator glyphs only, fails with the invalid-character error; it does  *)
(* not return zero.                                                        *)
(***************************************************************************)
C31_EmptyNameFails ==
    (fn = "encodeRuneName" /\ \A i \in 1..Len(arg) : arg[i] = Bullet) => ~ret.ok


\* The call in `rv` is one of createRunestoneEtching, whose amounts are in
\* tenths of a satoshi.
IsEtching(call) == "changeAmount" \in DOMAIN call

\* The call in `rv` is a lookup of unspent outputs on its own.
IsLookup(call) == "call" \in DOMAIN call

AmountUnit(call) == IF IsEtching(call) THEN 10 ELSE 1

(***************************************************************************)
(* C32: no transaction handed to signing by createRunestoneReveal or by    *)
(* createRunestoneEtching has an output whose value is above 0 and at or   *)
(* below the dust threshold 546: the only output of value zero is the      *)
(* data-carrying one, and every other output (recipient, change, service   *)
(* fee) is above 546.                                                      *)
(***************************************************************************)
C32_NoDustOutputs ==
    ~IsLookup(rv) => \A n \in 1..Len(rv.signed) :
        LET outputs == rv.signed[n].outputs
        IN  /\ Len(outputs) >= 2
            /\ outputs[1].address = "OP_RETURN" /\ outputs[1].value = 0
            /\ \A k \in 2..Len(outputs) :
                  /\ outputs[k].address # "OP_RETURN"
                  /\ outputs[k].value > DUST_LIMIT * AmountUnit(rv)

\* An etching was handed to the wallet with a change output of 547 sats, one
\* above the threshold.
C32_Witness ==
    /\ IsEtching(rv) /\ Len(rv.signed) = 1
    /\ Len(rv.signed[1].outputs) = 3
    /\ rv.signed[1].outputs[3].value = 5470
    /\ rv.signed[1].outputs[2].value = 15000


\* The value that goes back to the recipient (reveal) or to the wallet as
\* change (etching): the output after the data output and the service-fee
\* output, 0 if there is none.
ReturnedValue(call) ==
    IF IsEtching(call)
    THEN IF Len(call.outputs) = 3 THEN call.outputs[3].value ELSE 0
    ELSE call.outputs[2].value

FundingValue(call) == call.inputs[1].value

(***************************************************************************)
(* C33: every result returned by a reveal construction is consistent:      *)
(* totalFee = minerFee + devFee, and totalFee is the funding input value   *)
(* minus the value returned to the recipient or change output, for every   *)
(* funding value and fee rate.                                             *)
(***************************************************************************)
C33_ResultConsistent ==
    (~IsLookup(rv) /\ rv.pc = "returned") =>
        /\ Get(rv.result).totalFee = Get(rv.result).minerFee + Get(rv.result).devFee
        /\ Get(rv.result).totalFee = FundingValue(rv) - ReturnedValue(rv)


\* An amount in tenths of a satoshi that is a whole number of satoshis.
WholeSats(tenths) == tenths % 10 = 0

(***************************************************************************)
(* C35: the value of the service-fee output that createRunestoneEtching    *)
(* adds, and the change value derived from it, are whole numbers of        *)
(* satoshis for every integer funding value, payload length and integer    *)
(* fee rate.                                                               *)
(***************************************************************************)
C35_WholeSatoshis ==
    (IsEtching(rv) /\ rv.devFee # None) =>
        /\ WholeSats(Get(rv.devFee))
        /\ rv.changeAmount # None => WholeSats(Get(rv.changeAmount))
        /\ \A k \in 1..Len(rv.outputs) : WholeSats(rv.outputs[k].value)


(***************************************************************************)
(* C34: in every reachable state of the App flow, under any interleaving   *)
(* of submit, 'Try Again' and 'Create Another Rune' events with pending    *)
(* calls, the commit state is well-formed: commitAddr is set if and only   *)
(* if commitKey is set, commitUtxo is set only when commitAddr is set, and *)
(* a commit address and key, once set, are not replaced by another pair    *)
(* before the 'Create Another Rune' reset.                                 *)
(***************************************************************************)
C34_CommitStateWellFormed ==
    /\ [](/\ commitAddr # None <=> commitKey # None
          /\ commitUtxo # None => commitAddr # None)
    /\ [][ commitAddr # None =>
              \/ commitAddr' = commitAddr /\ commitKey' = commitKey
              \/ commitAddr' = None /\ commitKey' = None /\ rendered.txResult # None ]_vars


(***************************************************************************)
(* C36: a lookup of unspent outputs returns only outputs reported by the   *)
(* data provider: when the provider call fails or times out, fetchUTXOs    *)
(* and listUnspent surface an error to the caller and return no            *)
(* fabricated output, so that a failed lookup never leads to a funding     *)
(* output being selected or a transaction being built.                     *)
(***************************************************************************)
C36_FailedLookupSurfaces ==
    (IsLookup(rv) /\ rv.ok # None) =>
        /\ rv.ok = Some(FALSE) =>
              rv.pc = "thrown" /\ rv.error # "" /\ rv.result = None /\ rv.utxos = None
        /\ (rv.ok = Some(TRUE) /\ rv.call # "createRuneEtchingPSBT") =>
              rv.pc = "returned" /\ rv.result = rv.utxos

=============================================================================
